---------------------------- MODULE Spec2Model ----------------------------
(***************************************************************************)
(* A model of the petition-qualification pipeline of scripts/process.py    *)
(* and scripts/replay.py.                                                  *)
(*                                                                         *)
(* Python floats are modelled as exact rationals <<num, den>> (den > 0,    *)
(* reduced), so that sums, products, comparisons and round() are computed  *)
(* as real arithmetic; the input grids are chosen so that every            *)
(* intermediate value fits TLC's 32-bit integers.                          *)
(***************************************************************************)
EXTENDS Integers, Sequences, FiniteSets, TLC

VARIABLES
    pc,              \* position of the computation under study
    \* ---- compute_distribution / p_qualify / correlation penalty ----
    probs,           \* the probability vector handed to compute_distribution
    probs_hi,        \* probs with one entry raised (second, lock-step evaluation)
    np,              \* number of entries of probs already convolved (outer loop)
    dp,              \* dp of the evaluation on probs
    dp_hi,           \* dp of the evaluation on probs_hi
    required_count,  \* the required number of districts of the scenario
    p_qual_raw,      \* p_qualify(dp)
    p_qual_raw_hi,   \* p_qualify(dp_hi)
    overall,         \* main's overall block: p_qual, p_exact, exp_districts
    \* ---- build_bloom_filter ----
    keys,            \* the keys to insert, each the pair of 8-byte digest words
    bloom_m,         \* m, the number of bits of the filter
    bloom_k,         \* k, the number of hash functions
    bits,            \* the bytearray, a sequence of bytes 0..255
    key_i,           \* number of keys fully inserted (outer loop)
    pos_i,           \* number of positions of the current key already set
    \* ---- one call of a probability function ----
    call_args,       \* the arguments of the call
    call_ret,        \* what the call returned: prob, then the tier of prob
    \* ---- main, one district's iteration ----
    d_in,            \* what the iteration reads
    d_rec,           \* the record it appends to districts_out
    \* ---- main, run after run ----
    data,            \* data.json on disk: what the last run wrote
    prev_out,        \* data.json as the last run found it
    run_x,           \* the input of the last run: counts and day
    prev_x,          \* the input of the run before it
    runs,            \* number of runs so far
    \* ---- replay.py main ----
    files,           \* the dated spreadsheets, by name: day and per-district counts
    snapshots,       \* the snapshots list as built so far
    snap_i,          \* number of snapshots whose deltas are written
    anomalies,       \* what detect_anomalies returned
    hist_out,        \* the rates, peaks and projections of history.json
    \* ---- main, after the district loop ----
    districts_out,   \* the records of the districts, as they stand
    after_loop,      \* districts_out as the district loop left it, kept for comparison
    tail_in,         \* what the statewide projection reads: day, total, history, sums
    statewide        \* statewide_projection

distVars == <<probs, probs_hi, np, dp, dp_hi, required_count,
              p_qual_raw, p_qual_raw_hi, overall>>

bloomVars == <<keys, bloom_m, bloom_k, bits, key_i, pos_i>>

callVars == <<call_args, call_ret>>

districtVars == <<d_in, d_rec>>

runVars == <<data, prev_out, run_x, prev_x, runs>>

replayVars == <<files, snapshots, snap_i, anomalies, hist_out>>

tailVars == <<districts_out, after_loop, tail_in, statewide>>

vars == <<pc, distVars, bloomVars, callVars, districtVars, runVars, replayVars, tailVars>>

\* what the actions of one component leave alone
outsideDist == <<bloomVars, callVars, districtVars, runVars, replayVars, tailVars>>
outsideBloom == <<distVars, callVars, districtVars, runVars, replayVars, tailVars>>
outsideCall == <<distVars, bloomVars, districtVars, runVars, replayVars, tailVars>>
outsideDistrict == <<distVars, bloomVars, callVars, runVars, replayVars, tailVars>>
outsideRun == <<distVars, bloomVars, callVars, districtVars, replayVars, tailVars>>
outsideReplay == <<distVars, bloomVars, callVars, districtVars, runVars, tailVars>>
outsidePipeline == <<distVars, bloomVars, callVars, runVars, tailVars>>
outsideTail == <<distVars, bloomVars, callVars, districtVars, runVars, replayVars>>

-----------------------------------------------------------------------------
(* Program constants *)

DISTRICTS_REQUIRED == 26
TOTAL_DISTRICTS == 29

\* dates are counted in days from SUBMISSION_DEADLINE, 2026-02-15
SUBMISSION_DEADLINE == 0
\* CLERK_DEADLINE, 2026-03-09, is 22 days later
CLERK_DEADLINE == 22
\* the default clerk_window_days of bayesian_removal_rate
CLERK_WINDOW_DAYS == 22
LG_LAG_DAYS == 14
WEEKLY_BUCKETS == 10

THRESHOLDS ==
    <<5238, 4687, 4737, 5099, 4115, 4745, 5294,
      4910, 4805, 2975, 4890, 3248, 4088, 5680,
      4596, 4347, 5368, 5093, 5715, 5292, 5684,
      5411, 4253, 3857, 4929, 5178, 5696, 5437,
      5382>>

(* Bounds of the model *)

\* longest probability vector enumerated entry by entry
MaxLen == 3
\* most fractional entries in a 29-district vector
MaxFrac == 3
\* a 29-district vector has at least TOTAL_DISTRICTS - OnesSlack entries equal to 1
OnesSlack == 6
\* most snapshots in history.json
MaxSnaps == 3
\* most runs of main in a row
MaxRuns == 3
\* most dated spreadsheets replay.py reads
MaxFiles == 4
\* most keys inserted into one bloom filter
MaxKeys == 2
\* the two digest words of a key range over 0..MaxHash
MaxHash == 2

-----------------------------------------------------------------------------
(* Exact rational arithmetic standing for Python's float arithmetic *)

Abs(x) == IF x < 0 THEN -x ELSE x

RECURSIVE GCD(_, _)
GCD(a, b) == IF b = 0 THEN a ELSE GCD(b, a % b)

Rat(n, d) ==
    LET g == GCD(Abs(n), d)
    IN  IF n = 0 THEN <<0, 1>> ELSE <<n \div g, d \div g>>

RZero == <<0, 1>>
ROne == <<1, 1>>

RAdd(x, y) ==
    LET g == GCD(x[2], y[2])
        l == (x[2] \div g) * y[2]
    IN  Rat(x[1] * (l \div x[2]) + y[1] * (l \div y[2]), l)

RNeg(x) == <<-x[1], x[2]>>

RSub(x, y) == RAdd(x, RNeg(y))

RMul(x, y) ==
    LET g1 == GCD(Abs(x[1]), y[2])
        g2 == GCD(Abs(y[1]), x[2])
    IN  IF x[1] = 0 \/ y[1] = 0 THEN RZero
        ELSE <<(x[1] \div g1) * (y[1] \div g2), (x[2] \div g2) * (y[2] \div g1)>>

\* x <= y by comparing integer parts and then the inverted remainders, so that
\* no product is ever formed
RECURSIVE RLe(_, _)
RLe(x, y) ==
    LET q1 == x[1] \div x[2]
        q2 == y[1] \div y[2]
        r1 == x[1] % x[2]
        r2 == y[1] % y[2]
    IN  IF q1 # q2 THEN q1 < q2
        ELSE IF r1 = 0 THEN TRUE
        ELSE IF r2 = 0 THEN FALSE
        ELSE RLe(<<y[2], r2>>, <<x[2], r1>>)

RLt(x, y) == RLe(x, y) /\ x # y

RMax(x, y) == IF RLe(x, y) THEN y ELSE x

RMin(x, y) == IF RLe(x, y) THEN x ELSE y

\* the sum of s[lo..hi]; exact, so the order of the additions does not matter,
\* and halving keeps the evaluation shallow
RECURSIVE RSumRange(_, _, _)
RSumRange(s, lo, hi) ==
    IF lo > hi THEN RZero
    ELSE IF lo = hi THEN s[lo]
    ELSE RAdd(RSumRange(s, lo, (lo + hi) \div 2),
              RSumRange(s, (lo + hi) \div 2 + 1, hi))

\* Python's sum(s)
RSum(s) == RSumRange(s, 1, Len(s))

\* long division: the first `digits` decimal digits of rem/den and what is left
RECURSIVE LongDiv(_, _, _, _)
LongDiv(rem, den, digits, acc) ==
    IF digits = 0 THEN <<acc, rem>>
    ELSE LongDiv((rem * 10) % den, den, digits - 1, acc * 10 + ((rem * 10) \div den))

RECURSIVE Pow10(_)
Pow10(k) == IF k = 0 THEN 1 ELSE 10 * Pow10(k - 1)

\* Python's round(x, digits) as the integer round(x * 10^digits), ties to even
RoundDigits(x, digits) ==
    LET n == Abs(x[1])
        ld == LongDiv(n % x[2], x[2], digits, 0)
        whole == (n \div x[2]) * Pow10(digits) + ld[1]
        up == \/ 2 * ld[2] > x[2]
              \/ (2 * ld[2] = x[2] /\ whole % 2 = 1)
        mag == IF up THEN whole + 1 ELSE whole
    IN  IF x[1] < 0 THEN -mag ELSE mag

Max(a, b) == IF a >= b THEN a ELSE b

RAbs(x) == <<Abs(x[1]), x[2]>>

\* an integer as a float
R(n) == <<n, 1>>

\* x / y for y # 0
RDiv(x, y) == RMul(x, IF y[1] < 0 THEN <<-y[2], -y[1]>> ELSE <<y[2], y[1]>>)

\* the decimal literal n / 10^digits
Dec(n, digits) == Rat(n, Pow10(digits))

\* Python's round(x, 4) as a float
Round4(x) == Rat(RoundDigits(x, 4), 10000)

\* Python's s[a:] on a list
PySliceFrom(s, a) == SubSeq(s, a + 1, Len(s))

-----------------------------------------------------------------------------
(* compute_distribution, p_qualify, expected_districts *)

\* a Python list built by a comprehension: a sequence, evaluated at once
List(f, len) == SubSeq(f, 1, len)


\* (mutant) the unit mass one entry up: dp[1] = 1.0
InitialDpAtOne(n) == List([k \in 1..(n + 1) |-> IF k = 2 THEN ROne ELSE RZero], n + 1)

\* dp = [0.0] * (n + 1); dp[0] = 1.0
InitialDp(n) == List([k \in 1..(n + 1) |-> IF k = 1 THEN ROne ELSE RZero], n + 1)

\* The inner loop `for k in range(n + 1)` on a fresh new_dp.  Entry j of new_dp
\* is written by iteration k = j - 1 (new_dp[k + 1] += dp[k] * p) and then by
\* iteration k = j (new_dp[k] += dp[k] * (1 - p)); iterations with dp[k] == 0
\* are skipped.  Iteration k = n with dp[n] != 0 writes new_dp[n + 1], which is
\* out of range: Python's IndexError.
InnerLoop(d, p, n) ==
    [err |-> d[n + 1] # RZero,
     dp |-> List([j \in 1..(n + 1) |->
                RAdd(IF j >= 2 /\ d[j - 1] # RZero THEN RMul(d[j - 1], p) ELSE RZero,
                     IF d[j] # RZero THEN RMul(d[j], RSub(ROne, p)) ELSE RZero)],
             n + 1)]

\* (mutant) the stay branch forgets the complement: new_dp[k] += dp[k] * p
ConvolveNoComplement(d, p, n) ==
    [err |-> d[n + 1] # RZero,
     dp |-> List([j \in 1..(n + 1) |->
                RAdd(IF j >= 2 /\ d[j - 1] # RZero THEN RMul(d[j - 1], p) ELSE RZero,
                     IF d[j] # RZero THEN RMul(d[j], p) ELSE RZero)],
             n + 1)]

\* the body of `for p in probs`: new_dp = [0.0] * (n + 1), the inner loop, dp = new_dp
Convolve(d, p, n) == InnerLoop(d, p, n)

\* (mutant) the slice taken from the wrong end: sum(dp[:26])
p_qualify_head(d) == RSum(SubSeq(d, 1, IF Len(d) < 26 THEN Len(d) ELSE 26))

p_qualify(d) == RSum(PySliceFrom(d, 26))

expected_districts(ps) == RSum(ps)

-----------------------------------------------------------------------------
(* Inputs of the distribution engine *)

SmallP == {<<0, 1>>, <<1, 2>>, <<9, 10>>, <<1, 1>>}
FracP == {<<1, 4>>, <<1, 2>>, <<3, 4>>}

RECURSIVE SeqsOfLen(_, _)
SeqsOfLen(S, len) ==
    IF len = 0 THEN {<<>>}
    ELSE {Append(s, x) : s \in SeqsOfLen(S, len - 1), x \in S}

\* a ones, then b entries q, then zeros
Vec29(a, b, q) ==
    List([k \in 1..TOTAL_DISTRICTS |->
            IF k <= a THEN ROne ELSE IF k <= a + b THEN q ELSE RZero],
         TOTAL_DISTRICTS)

Reverse(s) == List([k \in 1..Len(s) |-> s[Len(s) + 1 - k]], Len(s))

Vectors29 ==
    LET shapes == {ab \in ((TOTAL_DISTRICTS - OnesSlack)..TOTAL_DISTRICTS) \X (0..MaxFrac) :
                      ab[1] + ab[2] <= TOTAL_DISTRICTS}
        fit == {Vec29(ab[1], ab[2], q) : ab \in shapes, q \in FracP}
    IN  fit \cup {Reverse(v) : v \in fit}

NineTenths == List([k \in 1..9 |-> <<9, 10>>], 9)

ProbVectors ==
    UNION {SeqsOfLen(SmallP, len) : len \in 0..MaxLen}
        \cup {NineTenths} \cup Vectors29

\* the entries compared when one probability is raised
RaiseIndexes(ps) ==
    IF Len(ps) <= MaxLen + 1 THEN 1..Len(ps)
    ELSE {1, Len(ps) \div 2, Len(ps)}
        \cup {k \in 2..Len(ps) : ps[k] # ps[k - 1]}
        \cup {k \in 1..(Len(ps) - 1) : ps[k] # ps[k + 1]}

Raised(ps) ==
    {ps} \cup UNION {{[ps EXCEPT ![j] = v] :
                        v \in {w \in SmallP \cup FracP : RLe(ps[j], w)}} :
                     j \in RaiseIndexes(ps)}

\* the required count of the scenario: DISTRICTS_REQUIRED of the 29
\* configured districts, 8 of 9 in the nine-district scenario, -1 where the
\* vector belongs to no scenario
RequiredChoices(n) ==
    IF n = TOTAL_DISTRICTS THEN {DISTRICTS_REQUIRED}
    ELSE IF n = 9 THEN {8}
    ELSE {-1}

NoOverall == [p_qual |-> RZero, p_exact |-> <<>>, exp_districts |-> RZero,
              correlation_penalty |-> RZero]

DistIdle ==
    /\ probs = <<>>
    /\ probs_hi = <<>>
    /\ np = 0
    /\ dp = <<>>
    /\ dp_hi = <<>>
    /\ required_count = -1
    /\ p_qual_raw = RZero
    /\ p_qual_raw_hi = RZero
    /\ overall = NoOverall

DistInit ==
    /\ pc = "dist_loop"
    /\ probs \in ProbVectors
    /\ probs_hi \in Raised(probs)
    /\ np = 0
    /\ dp = InitialDp(Len(probs))
    /\ dp_hi = InitialDp(Len(probs))
    /\ required_count \in RequiredChoices(Len(probs))
    /\ p_qual_raw = RZero
    /\ p_qual_raw_hi = RZero
    /\ overall = NoOverall

\* one iteration of `for p in probs` (both evaluations in lock-step)
DistIterate ==
    /\ pc = "dist_loop"
    /\ np < Len(probs)
    /\ LET r == Convolve(dp, probs[np + 1], Len(probs))
           rh == Convolve(dp_hi, probs_hi[np + 1], Len(probs))
       IN  /\ dp' = r.dp
           /\ dp_hi' = rh.dp
           /\ pc' = IF r.err \/ rh.err THEN "dist_index_error" ELSE "dist_loop"
    /\ np' = np + 1
    /\ UNCHANGED <<probs, probs_hi, required_count, p_qual_raw, p_qual_raw_hi, overall>>
    /\ UNCHANGED outsideDist

\* `return dp`
DistReturn ==
    /\ pc = "dist_loop"
    /\ np = Len(probs)
    /\ pc' = "dist_returned"
    /\ UNCHANGED distVars
    /\ UNCHANGED outsideDist

\* p_qualify applied to the returned distribution
PQualifyCall ==
    /\ pc = "dist_returned"
    /\ p_qual_raw' = p_qualify(dp)
    /\ p_qual_raw_hi' = p_qualify(dp_hi)
    /\ pc' = "dist_qualified"
    /\ UNCHANGED <<probs, probs_hi, np, dp, dp_hi, required_count, overall>>
    /\ UNCHANGED outsideDist

CORRELATION_PENALTY_SCALE == <<3, 100>>

\* (mutant) a flat penalty, not floored
CorrelationFlat(raw) == RSub(raw, CORRELATION_PENALTY_SCALE)

\* p_qual = max(0.0, p_qual_raw - CORRELATION_PENALTY_SCALE * p_qual_raw)
CorrelationAdjusted(raw) ==
    RMax(RZero, RSub(raw, RMul(CORRELATION_PENALTY_SCALE, raw)))

\* p_exact = [round(dp[k], 6) for k in range(TOTAL_DISTRICTS + 1)]
PExact(d) ==
    List([k \in 1..(TOTAL_DISTRICTS + 1) |-> RoundDigits(d[k], 6)], TOTAL_DISTRICTS + 1)

\* main's overall block for the 29 configured districts
MainOverall ==
    /\ pc = "dist_qualified"
    /\ Len(probs) = TOTAL_DISTRICTS
    /\ overall' = [p_qual |-> CorrelationAdjusted(p_qual_raw),
                   p_exact |-> PExact(dp),
                   exp_districts |-> expected_districts(probs),
                   correlation_penalty |-> RMul(CORRELATION_PENALTY_SCALE, p_qual_raw)]
    /\ pc' = "dist_main"
    /\ UNCHANGED <<probs, probs_hi, np, dp, dp_hi, required_count,
                   p_qual_raw, p_qual_raw_hi>>
    /\ UNCHANGED outsideDist

DistNext == DistIterate \/ DistReturn \/ PQualifyCall \/ MainOverall

-----------------------------------------------------------------------------
(* bloom_hash_positions, build_bloom_filter *)

\* a key stands for its SHA-256 digest: <<digest[0:8], digest[8:16]>> as integers
Keys == (0..MaxHash) \X (0..MaxHash)

\* (mutant) digest[8:16] as it is, without the `| 1`
AsIs(x) == x

\* x | 1
OrOne(x) == IF x % 2 = 0 THEN x + 1 ELSE x

\* [(h1 + i * h2) % m for i in range(k)], h2 forced odd
bloom_hash_positions(key, mm, kk) ==
    List([i \in 1..kk |-> (key[1] + (i - 1) * OrOne(key[2])) % mm], kk)

RECURSIVE Pow2(_)
Pow2(b) == IF b = 0 THEN 1 ELSE 2 * Pow2(b - 1)

\* whether bit b of byte x is set
HasBit(x, b) == (x \div Pow2(b)) % 2 = 1

\* (mutant) the byte is overwritten: bits[pos >> 3] = 1 << (pos & 7)
AssignBit(bs, pos) == [bs EXCEPT ![(pos \div 8) + 1] = Pow2(pos % 8)]

\* bits[pos >> 3] |= (1 << (pos & 7))
SetBit(bs, pos) ==
    [bs EXCEPT ![(pos \div 8) + 1] =
        IF HasBit(@, pos % 8) THEN @ ELSE @ + Pow2(pos % 8)]

\* the filter sizes tried: 8 and 16 bits, and 12, which bytearray(m // 8) does not hold
FilterSizes == {8, 12, 16}
\* the numbers of hash functions tried, 7 being main's K
HashCounts == {1, 3, 7}

BloomIdle ==
    /\ keys = <<>>
    /\ bloom_m = 8
    /\ bloom_k = 1
    /\ bits = <<>>
    /\ key_i = 0
    /\ pos_i = 0

\* bits = bytearray(m // 8)
BloomInit ==
    /\ pc = "bloom_loop"
    /\ keys \in UNION {SeqsOfLen(Keys, len) : len \in 0..MaxKeys}
    /\ bloom_m \in FilterSizes
    /\ bloom_k \in HashCounts
    /\ bits = List([j \in 1..(bloom_m \div 8) |-> 0], bloom_m \div 8)
    /\ key_i = 0
    /\ pos_i = 0

\* one iteration of `for pos in bloom_hash_positions(key, m, k)`
BloomSetPosition ==
    /\ pc = "bloom_loop"
    /\ key_i < Len(keys)
    /\ pos_i < bloom_k
    /\ LET pos == bloom_hash_positions(keys[key_i + 1], bloom_m, bloom_k)[pos_i + 1]
       IN  IF pos \div 8 < Len(bits)
           THEN /\ bits' = SetBit(bits, pos)
                /\ pos_i' = pos_i + 1
                /\ pc' = pc
           ELSE /\ pc' = "bloom_index_error"
                /\ UNCHANGED <<bits, pos_i>>
    /\ UNCHANGED <<keys, bloom_m, bloom_k, key_i>>
    /\ UNCHANGED outsideBloom

\* the positions of one key are exhausted: next iteration of `for key in keys`
BloomNextKey ==
    /\ pc = "bloom_loop"
    /\ key_i < Len(keys)
    /\ pos_i = bloom_k
    /\ key_i' = key_i + 1
    /\ pos_i' = 0
    /\ UNCHANGED <<pc, keys, bloom_m, bloom_k, bits>>
    /\ UNCHANGED outsideBloom

\* `return {"m": m, "k": k, "bits": ...}`
BloomReturn ==
    /\ pc = "bloom_loop"
    /\ key_i = Len(keys)
    /\ pc' = "bloom_built"
    /\ UNCHANGED bloomVars
    /\ UNCHANGED outsideBloom

BloomNext == BloomSetPosition \/ BloomNextKey \/ BloomReturn

-----------------------------------------------------------------------------
(* The per-district probability functions *)

\* compute_district_prob without its early return: a district at its
\* threshold gets the cap of the clamp
compute_district_prob_capped(verified, threshold, trend, final_week_sigs, projected_adj, rejection_rate) ==
    RMin(Dec(99, 2), Rat(verified, threshold))

\* lines 208-214 with the `raw = max(raw, 0.85)` of line 214 left out
GrowthSqueezeNoFloor(base_score, weighted) ==
    IF RLt(base_score, Dec(50, 2)) THEN RMul(weighted, Dec(60, 2))
    ELSE IF RLt(base_score, Dec(75, 2)) THEN RMul(weighted, Dec(85, 2))
    ELSE weighted

\* lines 208-214: the sigmoid-style squeeze of raw
GrowthSqueeze(base_score, weighted) ==
    IF RLt(base_score, Dec(50, 2)) THEN RMul(weighted, Dec(60, 2))
    ELSE IF RLt(base_score, Dec(75, 2)) THEN RMul(weighted, Dec(85, 2))
    ELSE IF RLe(Dec(95, 2), base_score) THEN RMax(weighted, Dec(85, 2))
    ELSE weighted

\* line 222 without its max and min
NoClamp(raw) == raw

\* line 222: max(0.00, min(0.99, raw))
ClampProb(raw) == RMax(RZero, RMin(Dec(99, 2), raw))

\* compute_district_prob: the growth-mode probability of one district
compute_district_prob(verified, threshold, trend, final_week_sigs, projected_adj, rejection_rate) ==
    LET proj_pct == IF threshold > 0 THEN RDiv(projected_adj, R(threshold)) ELSE RZero
        base_score == Rat(verified, threshold)
        trend_mult == CASE trend = "ACCEL" -> Dec(108, 2)
                        [] trend = "DECEL" -> Dec(90, 2)
                        [] OTHER -> ROne
        rejection_penalty == RMul(rejection_rate, Dec(5, 1))
        weighted == RSub(RAdd(RAdd(RMul(Dec(45, 2), base_score),
                                   RMul(Dec(35, 2), proj_pct)),
                              RMul(Dec(20, 2), RMul(base_score, trend_mult))),
                         rejection_penalty)
        squeezed == GrowthSqueeze(base_score, weighted)
        raw == IF final_week_sigs > 500 THEN RAdd(squeezed, Dec(3, 2))
               ELSE IF final_week_sigs > 200 THEN RAdd(squeezed, Dec(1, 2))
               ELSE squeezed
    IN  IF verified >= threshold THEN ROne
        ELSE IF RLt(proj_pct, Dec(65, 2)) THEN Round4(RMul(proj_pct, Dec(31, 3)))
        ELSE IF RLt(proj_pct, Dec(80, 2))
             THEN Round4(RAdd(Dec(2, 2), RMul(RSub(proj_pct, Dec(65, 2)), Dec(40, 2))))
        ELSE IF RLt(proj_pct, Dec(90, 2))
             THEN Round4(RAdd(Dec(8, 2), RMul(RSub(proj_pct, Dec(80, 2)), ROne)))
        ELSE ClampProb(raw)

\* line 241 without its min
CredibilityUncapped(days_post_deadline, clerk_window_days) ==
    Rat(days_post_deadline, clerk_window_days)

\* line 241: credibility
Credibility(days_post_deadline, clerk_window_days) ==
    RMin(ROne, Rat(days_post_deadline, clerk_window_days))

\* bayesian_removal_rate
bayesian_removal_rate(observed_rate, days_post_deadline, clerk_window_days) ==
    LET REMOVAL_PRIOR == Dec(165, 4)
        credibility == Credibility(days_post_deadline, clerk_window_days)
    IN  RAdd(RMul(credibility, observed_rate),
             RMul(RSub(ROne, credibility), REMOVAL_PRIOR))

\* verified * (1.0 - effective_rate) >= threshold, decided as
\* verified >= threshold / (1.0 - effective_rate) so that the product, which
\* does not fit 32 bits, is never formed
ProjectedRemainingMeets(verified, effective_rate, threshold) ==
    IF RLe(ROne, effective_rate) THEN threshold <= 0
    ELSE RLe(RDiv(R(threshold), RSub(ROne, effective_rate)), verified)

\* lines 274-287 without the floors 0.92 and 0.90
SurvivalAtThresholdNoFloor(verified, threshold, effective_rate) ==
    LET buffer == RDiv(RSub(verified, R(threshold)), R(threshold))
    IN  IF RLe(Dec(10, 2), buffer)
        THEN IF ProjectedRemainingMeets(verified, effective_rate, threshold)
             THEN ROne
             ELSE RSub(ROne, RMul(effective_rate, R(2)))
        ELSE RSub(ROne, RMul(effective_rate, R(3)))

\* lines 274-287: the district already met its threshold
SurvivalAtThreshold(verified, threshold, effective_rate) ==
    LET buffer == RDiv(RSub(verified, R(threshold)), R(threshold))
    IN  IF RLe(Dec(10, 2), buffer)
        THEN IF ProjectedRemainingMeets(verified, effective_rate, threshold)
             THEN ROne
             ELSE RMax(Dec(92, 2),
                       RSub(ROne, RMin(RMul(effective_rate, R(2)), Dec(10, 2))))
        ELSE RMax(Dec(90, 2),
                  RSub(ROne, RMin(RMul(effective_rate, R(3)), Dec(15, 2))))

\* lines 290-302, `gap_pct <= bound` with gap_pct = 1.0 - current_pct as binary
\* floating point computes it. current_pct is the double nearest to
\* verified / threshold and, for current_pct >= 0.5, the subtraction from 1.0
\* is exact, so the test differs from the test on the reals only where
\* verified / threshold is exactly 1 - bound: there 1.0 - 0.98 is
\* 0.020000000000000018, 1.0 - 0.95 is 0.050000000000000044 and 1.0 - 0.85 is
\* 0.15000000000000002, all above their bound, while 1.0 - 0.9 is
\* 0.09999999999999998 and 1.0 - 0.75 is 0.25
GapAtMost(gap_pct, bound) ==
    IF gap_pct = bound THEN bound \in {Dec(10, 2), Dec(25, 2)}
    ELSE RLe(gap_pct, bound)

\* compute_district_prob_survival: the survival-mode probability of one
\* district; peak_verified, observed_removal_rate and days_remaining are
\* parameters the function never reads
compute_district_prob_survival(verified, threshold, peak_verified, post_deadline_removal_rate, observed_removal_rate, days_remaining, days_post_deadline, pre_deadline_slope) ==
    LET effective_rate ==
            bayesian_removal_rate(post_deadline_removal_rate, days_post_deadline,
                                  CLERK_WINDOW_DAYS)
        current_pct == IF threshold > 0 THEN RDiv(verified, R(threshold)) ELSE RZero
        gap_pct == RSub(ROne, current_pct)
        lookup == IF GapAtMost(gap_pct, Dec(2, 2)) THEN Dec(18, 2)
                  ELSE IF GapAtMost(gap_pct, Dec(5, 2)) THEN Dec(10, 2)
                  ELSE IF GapAtMost(gap_pct, Dec(10, 2)) THEN Dec(5, 2)
                  ELSE IF GapAtMost(gap_pct, Dec(15, 2)) THEN Dec(2, 2)
                  ELSE Dec(5, 3)
        trajectory_bonus ==
            RMul(RMin(Dec(5, 1), RDiv(pre_deadline_slope, R(50))),
                 RSub(ROne, Rat(days_post_deadline, 10)))
        boosted == IF RLt(RZero, pre_deadline_slope) /\ days_post_deadline <= 10
                   THEN RMul(lookup, RAdd(ROne, trajectory_bonus))
                   ELSE lookup
        base_p == IF RLt(Dec(3, 2), effective_rate)
                  THEN RMul(boosted,
                            RMax(Dec(5, 1),
                                 RSub(ROne, RMul(RSub(effective_rate, Dec(3, 2)), R(10)))))
                  ELSE boosted
    IN  IF RLe(R(threshold), verified)
        THEN SurvivalAtThreshold(verified, threshold, effective_rate)
        ELSE IF ~GapAtMost(gap_pct, Dec(25, 2)) THEN RZero
        ELSE Round4(RMax(RZero, RMin(Dec(99, 2), base_p)))

\* compute_trend: last two buckets against the two before them
compute_trend(weekly) ==
    LET n == Len(weekly)
        last2 == weekly[n - 1] + weekly[n]
        prior2 == weekly[n - 3] + weekly[n - 2]
    IN  IF n < 4 THEN "STABLE"
        ELSE IF prior2 = 0 THEN "STABLE"
        ELSE IF RLe(Dec(115, 2), Rat(last2, prior2)) THEN "ACCEL"
        ELSE IF RLe(Rat(last2, prior2), Dec(85, 2)) THEN "DECEL"
        ELSE "STABLE"

\* (mutant) the mean of the absolute rates in place of line 406
MeanOfAbsRates(rates, r_mean) ==
    RDiv(RSum(List([i \in 1..Len(rates) |-> RAbs(rates[i])], Len(rates))),
         R(Len(rates)))

\* line 406: mean_abs_rate = max(abs(r_mean), 1.0)
MeanAbsRate(rates, r_mean) == RMax(RAbs(r_mean), ROne)

\* compute_trend_from_history: regression slope of the per-day rates between
\* consecutive snapshots, relative to the mean rate
compute_trend_from_history(district_snapshots) ==
    LET n == Len(district_snapshots) - 1
        rates == List([i \in 1..n |->
                     Rat(district_snapshots[i + 1].count - district_snapshots[i].count,
                         Max(district_snapshots[i + 1].day - district_snapshots[i].day, 1))],
                      n)
        x_mean == Rat((n * (n + 1)) \div 2, n)
        r_mean == RDiv(RSum(rates), R(n))
        num == RSum(List([i \in 1..n |->
                     RMul(RSub(R(i), x_mean), RSub(rates[i], r_mean))], n))
        den == RSum(List([i \in 1..n |->
                     RMul(RSub(R(i), x_mean), RSub(R(i), x_mean))], n))
        slope == IF den # RZero THEN RDiv(num, den) ELSE RZero
        mean_abs_rate == MeanAbsRate(rates, r_mean)
        relative_slope == RDiv(slope, mean_abs_rate)
    IN  IF Len(district_snapshots) < 3 THEN "STABLE"
        ELSE IF n < 2 THEN "STABLE"
        ELSE IF RLe(Dec(10, 2), relative_slope) THEN "ACCEL"
        ELSE IF RLe(relative_slope, RNeg(Dec(10, 2))) THEN "DECEL"
        ELSE "STABLE"

\* build_weekly_buckets_from_history: the positive net changes between
\* consecutive snapshots, padded on the left or cut to n_buckets entries
build_weekly_buckets_from_history(district_snapshots, n_buckets) ==
    LET m == Len(district_snapshots) - 1
        deltas == List([i \in 1..m |->
                      Max(0, district_snapshots[i + 1].count
                             - district_snapshots[i].count)], m)
    IN  IF district_snapshots = <<>> \/ m = 0
        THEN List([i \in 1..n_buckets |-> 0], n_buckets)
        ELSE IF m >= n_buckets THEN SubSeq(deltas, m - n_buckets + 1, m)
        ELSE List([i \in 1..n_buckets |->
                     IF i <= n_buckets - m THEN 0 ELSE deltas[i - (n_buckets - m)]],
                  n_buckets)

\* classify_tier that keeps CONFIRMED for pct_verified >= 1 only
classify_tier_by_count(prob, pct_verified) ==
    IF RLe(ROne, pct_verified) THEN "CONFIRMED"
    ELSE IF RLe(Dec(50, 2), prob) THEN "LIKELY"
    ELSE "NO CHANCE"

\* classify_tier
classify_tier(prob, pct_verified) ==
    IF RLe(ROne, prob) THEN "CONFIRMED"
    ELSE IF RLe(Dec(90, 2), prob) THEN "NEARLY CERTAIN"
    ELSE IF RLe(Dec(70, 2), prob) THEN "VERY LIKELY"
    ELSE IF RLe(Dec(50, 2), prob) THEN "LIKELY"
    ELSE IF RLe(Dec(25, 2), prob) THEN "POSSIBLE"
    ELSE IF RLe(Dec(80, 2), pct_verified) THEN "LIKELY"
    ELSE IF RLe(Dec(60, 2), pct_verified) THEN "POSSIBLE"
    ELSE IF RLe(Dec(10, 2), prob) THEN "UNLIKELY"
    ELSE "NO CHANCE"

-----------------------------------------------------------------------------
(* history.json as replay.py writes it, for one district *)

RECURSIVE IntSum(_)
IntSum(s) == IF s = <<>> THEN 0 ELSE s[1] + IntSum(Tail(s))

RECURSIVE MaxOf(_)
MaxOf(s) == IF Len(s) = 1 THEN s[1] ELSE Max(s[1], MaxOf(Tail(s)))

Counts(vals) == List([i \in 1..Len(vals) |-> vals[i].count], Len(vals))

\* the snapshots dated after / up to the submission deadline
PostSnaps(vals) == SelectSeq(vals, LAMBDA s : s.day > SUBMISSION_DEADLINE)
PreSnaps(vals) == SelectSeq(vals, LAMBDA s : s.day <= SUBMISSION_DEADLINE)

\* sum of all declines between consecutive counts
TotalRemovals(counts) ==
    IntSum(List([i \in 1..(Len(counts) - 1) |-> Max(0, counts[i] - counts[i + 1])],
                Len(counts) - 1))

\* replay.py compute_rejection_rate, for one district
compute_rejection_rate(vals) ==
    LET counts == Counts(vals)
        peak == MaxOf(counts)
    IN  IF Len(vals) < 2 THEN RZero
        ELSE IF peak > 0 THEN Round4(Rat(TotalRemovals(counts), peak))
        ELSE RZero

\* replay.py compute_post_deadline_removal_rates, for one district
compute_post_deadline_removal_rates(vals) ==
    LET post == PostSnaps(vals)
        counts == Counts(post)
        peak == MaxOf(counts)
    IN  IF Len(post) < 2 THEN RZero
        ELSE IF peak > 0 THEN Round4(Rat(TotalRemovals(counts), peak))
        ELSE RZero

\* replay.py days_to_deadline
days_to_deadline(snap_date) == Max(CLERK_DEADLINE - snap_date, 0)

-----------------------------------------------------------------------------
(* main: the body of `for d_num in sorted(THRESHOLDS.keys())` for one district.
   `in` holds what the body reads: d_num, verified (district_counts), today,
   history (whether history.json was loaded), snaps (its snapshots, each with
   the day, this district's count and the statewide total), raw10 (ten times
   projections[d]["raw"]) and weekly_file (build_weekly_buckets(dates)). *)

\* lines 653-661: trend and final_week_sigs
TrendAndWeekly(in) ==
    LET from_history == in.history /\ Len(in.snaps) >= 2
        weekly == IF from_history
                  THEN build_weekly_buckets_from_history(in.snaps, WEEKLY_BUCKETS)
                  ELSE in.weekly_file
    IN  [trend |-> IF from_history THEN compute_trend_from_history(in.snaps)
                   ELSE compute_trend(weekly),
         weekly |-> weekly,
         final_week_sigs |-> IF weekly # <<>> THEN weekly[Len(weekly)] ELSE 0]

\* lines 664-666
RejectionRate(in) == IF in.history THEN compute_rejection_rate(in.snaps) ELSE RZero

PostDeadlineRate(in) ==
    IF in.history THEN compute_post_deadline_removal_rates(in.snaps) ELSE RZero

PeakVerified(in) == IF in.history THEN MaxOf(Counts(in.snaps)) ELSE in.verified

\* lines 616 and 629
DaysToDeadline(in) ==
    IF in.history THEN days_to_deadline(in.snaps[Len(in.snaps)].day)
    ELSE Max(CLERK_DEADLINE - in.today, 0)

\* lines 689-691; None is written 0, both being false where the value is tested
GrowthProjRaw(in) == IF in.history THEN Rat(in.raw10, 10) ELSE RZero

\* lines 683-726 without the max of line 686
LagWeightNoFloor(in) ==
    LET days_elapsed == Max(0, in.today - SUBMISSION_DEADLINE)
        by_window == RSub(ROne, Rat(days_elapsed, LG_LAG_DAYS))
        post_snaps == PostSnaps(in.snaps)
        n == Len(post_snaps)
        post_gains == IntSum(List([i \in 1..(n - 1) |->
                          Max(0, post_snaps[i + 1].total - post_snaps[i].total)], n - 1))
        pre == PreSnaps(in.snaps)
        empirical_lag_active ==
            IF in.history /\ n >= 2 /\ pre # <<>> /\ pre[Len(pre)].total > 0
            THEN RLe(Dec(1, 3), Rat(post_gains, pre[Len(pre)].total))
            ELSE TRUE
    IN  IF ~empirical_lag_active THEN RZero
        ELSE IF by_window = RZero THEN Dec(10, 2)
        ELSE by_window

\* lines 683-726: lag_weight after the empirical override
LagWeight(in) ==
    LET days_elapsed == Max(0, in.today - SUBMISSION_DEADLINE)
        by_window == RMax(RZero, RSub(ROne, Rat(days_elapsed, LG_LAG_DAYS)))
        post_snaps == PostSnaps(in.snaps)
        n == Len(post_snaps)
        post_gains == IntSum(List([i \in 1..(n - 1) |->
                          Max(0, post_snaps[i + 1].total - post_snaps[i].total)], n - 1))
        pre == PreSnaps(in.snaps)
        empirical_lag_active ==
            IF in.history /\ n >= 2 /\ pre # <<>> /\ pre[Len(pre)].total > 0
            THEN RLe(Dec(1, 3), Rat(post_gains, pre[Len(pre)].total))
            ELSE TRUE
    IN  IF ~empirical_lag_active THEN RZero
        ELSE IF by_window = RZero THEN Dec(10, 2)
        ELSE by_window

\* lines 731-765: post_deadline_projected
PostDeadlineProjected(in) ==
    LET post_snaps == PostSnaps(in.snaps)
        pre_snaps == PreSnaps(in.snaps)
        n == Len(post_snaps)
        velocity2 == Rat(post_snaps[n].count - post_snaps[1].count,
                         Max(1, post_snaps[n].day - post_snaps[1].day))
        projected2 == RAdd(R(in.verified), RMul(velocity2, R(DaysToDeadline(in))))
        velocity1 == Rat(post_snaps[1].count - pre_snaps[Len(pre_snaps)].count,
                         Max(1, post_snaps[1].day - pre_snaps[Len(pre_snaps)].day))
    IN  IF in.history /\ n >= 2
        THEN IF RLt(velocity2, RZero) THEN RMax(R(in.verified), projected2)
             ELSE projected2
        ELSE IF in.history /\ n = 1 /\ pre_snaps # <<>>
        THEN RAdd(R(in.verified), RMul(velocity1, R(DaysToDeadline(in))))
        ELSE R(in.verified)

\* lines 769-779: effective_verified
EffectiveVerified(in) ==
    LET growth_proj_raw == GrowthProjRaw(in)
        post_deadline_projected == PostDeadlineProjected(in)
        lag_weight == LagWeight(in)
        upper_bound == IF growth_proj_raw # RZero THEN growth_proj_raw
                       ELSE post_deadline_projected
    IN  IF Len(PostSnaps(in.snaps)) >= 2
        THEN RMax(R(in.verified), RMin(post_deadline_projected, upper_bound))
        ELSE IF growth_proj_raw # RZero /\ RLt(RZero, lag_weight)
        THEN RAdd(R(in.verified),
                  RMul(lag_weight, RMax(RZero, RSub(growth_proj_raw, R(in.verified)))))
        ELSE R(in.verified)

\* lines 786-799: pre_deadline_slope
PreDeadlineSlope(in) ==
    LET pre_snaps == PreSnaps(in.snaps)
        n == Len(pre_snaps)
    IN  IF in.history /\ n >= 2
        THEN RMax(RZero, Rat(pre_snaps[n].count - pre_snaps[n - 1].count,
                             Max(1, pre_snaps[n].day - pre_snaps[n - 1].day)))
        ELSE RZero

\* lines 669-836: the survival-mode branch
SurvivalBranch(in) ==
    LET tw == TrendAndWeekly(in)
        threshold == THRESHOLDS[in.d_num]
        lag_weight == LagWeight(in)
        growth_proj_raw == GrowthProjRaw(in)
        effective_verified == EffectiveVerified(in)
        days_post_deadline == Max(0, in.today - SUBMISSION_DEADLINE)
        survival_prob ==
            compute_district_prob_survival(
                effective_verified, threshold, PeakVerified(in), PostDeadlineRate(in),
                RejectionRate(in), DaysToDeadline(in), days_post_deadline,
                PreDeadlineSlope(in))
        growth_prob_for_blend ==
            compute_district_prob(
                in.verified, threshold, tw.trend, tw.final_week_sigs,
                IF growth_proj_raw # RZero THEN growth_proj_raw ELSE R(in.verified),
                RejectionRate(in))
        effective_rate == IF RLt(RZero, PostDeadlineRate(in)) THEN PostDeadlineRate(in)
                          ELSE RejectionRate(in)
        days_fraction == RMin(Rat(DaysToDeadline(in), 20), ROne)
        projected_total ==
            RMax(RSub(effective_verified,
                      RMul(RMul(R(PeakVerified(in)), effective_rate), days_fraction)),
                 R(in.verified))
    IN  [prob |-> RAdd(RMul(lag_weight, growth_prob_for_blend),
                       RMul(RSub(ROne, lag_weight), survival_prob)),
         projected_total |-> projected_total,
         projected_raw |-> IF growth_proj_raw # RZero THEN growth_proj_raw
                           ELSE projected_total,
         lag_weight |-> lag_weight,
         effective_verified |-> effective_verified,
         survival_prob |-> survival_prob,
         growth_prob_for_blend |-> growth_prob_for_blend]

\* lines 838-857: the growth-mode branch; without history the surge estimate
\* is district_share * ESTIMATED_VALID_UNVERIFIED, and that constant is 0;
\* with history the projection is taken to have the one decimal of its "raw"
GrowthBranch(in) ==
    LET tw == TrendAndWeekly(in)
        threshold == THRESHOLDS[in.d_num]
        rejection_adjusted ==
            Rat(RoundDigits(RMul(GrowthProjRaw(in), RSub(ROne, RejectionRate(in))), 1), 10)
        projected_total == IF in.history THEN rejection_adjusted ELSE R(in.verified)
    IN  [prob |-> compute_district_prob(in.verified, threshold, tw.trend,
                                        tw.final_week_sigs, projected_total,
                                        RejectionRate(in)),
         projected_total |-> projected_total,
         projected_raw |-> IF in.history THEN GrowthProjRaw(in) ELSE projected_total,
         lag_weight |-> RZero,
         effective_verified |-> R(in.verified),
         survival_prob |-> RZero,
         growth_prob_for_blend |-> RZero]

\* round(x, 1)
Round1(x) == Rat(RoundDigits(x, 1), 10)

\* lines 865-900: the record appended to districts_out; all_prob is the
\* unrounded prob appended to all_probs
DistrictRecord(in, post_deadline, branch) ==
    LET tw == TrendAndWeekly(in)
        threshold == THRESHOLDS[in.d_num]
        pct_verified == IF threshold > 0 THEN Rat(in.verified, threshold) ELSE RZero
        growth_prob == IF post_deadline
                       THEN compute_district_prob(in.verified, threshold, tw.trend,
                                                  tw.final_week_sigs, branch.projected_raw,
                                                  RejectionRate(in))
                       ELSE branch.prob
    IN  [d |-> in.d_num,
         threshold |-> threshold,
         verified |-> in.verified,
         mode |-> IF post_deadline THEN "survival" ELSE "growth",
         prob |-> Round4(branch.prob),
         growthProb |-> Round4(growth_prob),
         tier |-> classify_tier(branch.prob, pct_verified),
         trend |-> tw.trend,
         rejectionRate |-> Round4(RejectionRate(in)),
         projectedTotal |-> Round1(branch.projected_total),
         projectedRaw |-> Round1(branch.projected_raw),
         all_prob |-> branch.prob,
         lag_weight |-> branch.lag_weight,
         effective_verified |-> branch.effective_verified,
         survival_prob |-> branch.survival_prob,
         growth_prob_for_blend |-> branch.growth_prob_for_blend]

\* the count that is `mille` thousandths of threshold t, rounded down
PerMille(t, mille) == (t * mille) \div 1000

-----------------------------------------------------------------------------
(* compute_district_prob called on its own, then classify_tier on its result *)

\* thresholds tried: the 5000 of the worked scenarios and THRESHOLDS[10]
CallThresholds == {5000, 2975}

\* verified counts tried, in thousandths of the threshold: both sides of the
\* 0.50, 0.75 and 0.95 squeeze limits and of the threshold itself
VerifiedMilles == {0, 300, 499, 500, 600, 749, 750, 949, 950, 980, 999, 1000, 1100}

\* projections tried, in thousandths of the threshold: both sides of the
\* 0.65, 0.80 and 0.90 band limits
ProjectedMilles == {0, 640, 648, 650, 799, 800, 899, 900, 980, 1000, 1200}

Trends == {"ACCEL", "STABLE", "DECEL"}

\* both sides of the velocity-bonus limits
FinalWeekSigs == {0, 200, 201, 500, 501, 600}

RejectionRates == {RZero, Dec(2, 2), Dec(10, 2), ROne}

GrowthArgs ==
    {[verified |-> PerMille(t, v), threshold |-> t, trend |-> tr,
      final_week_sigs |-> f, projected_adj |-> R(PerMille(t, pa)),
      rejection_rate |-> rr] :
        t \in CallThresholds, v \in VerifiedMilles, tr \in Trends,
        f \in FinalWeekSigs, pa \in ProjectedMilles, rr \in RejectionRates}

NoReturn == [prob |-> RZero, tier |-> ""]

CallIdle ==
    /\ call_args = <<>>
    /\ call_ret = NoReturn

CallGrowthInit ==
    /\ pc = "growth_call"
    /\ call_args \in GrowthArgs
    /\ call_ret = NoReturn

\* prob = compute_district_prob(...)
ComputeDistrictProbCall ==
    /\ pc = "growth_call"
    /\ call_ret' = [call_ret EXCEPT !.prob =
           compute_district_prob(call_args.verified, call_args.threshold,
                                 call_args.trend, call_args.final_week_sigs,
                                 call_args.projected_adj, call_args.rejection_rate)]
    /\ pc' = "growth_returned"
    /\ UNCHANGED call_args
    /\ UNCHANGED outsideCall

\* tier = classify_tier(prob, pct_verified), pct_verified = verified / threshold
ClassifyTierCall ==
    /\ pc = "growth_returned"
    /\ call_ret' = [call_ret EXCEPT !.tier =
           classify_tier(call_ret.prob, Rat(call_args.verified, call_args.threshold))]
    /\ pc' = "tier_returned"
    /\ UNCHANGED call_args
    /\ UNCHANGED outsideCall

CallGrowthNext == ComputeDistrictProbCall \/ ClassifyTierCall

-----------------------------------------------------------------------------
(* bayesian_removal_rate and compute_district_prob_survival called on their own *)

\* thresholds tried: 5000, THRESHOLDS[14] (a multiple of 20, so that gaps of
\* exactly 5% and 15% are whole counts) and THRESHOLDS[10]
SurvivalThresholds == {5000, 5680, 2975}

\* verified counts tried, in thousandths of the threshold: both sides of the
\* gap limits 25%, 15%, 10%, 5%, 2%, of the threshold and of the 10% buffer
SurvivalVerifiedMilles ==
    {700, 749, 750, 849, 850, 851, 899, 900, 949, 950, 979, 980, 981, 999,
     1000, 1050, 1099, 1100, 1101, 1200}

\* post-deadline removal rates tried: none, the prior, and both sides of what
\* makes the blended rate pass 3%
ObservedRates == {RZero, Dec(165, 4), Dec(4, 2), Dec(6, 2), Dec(50, 2)}

\* days since the submission deadline: both sides of the 10 days of the
\* trajectory bonus and of the clerk window
DaysPostDeadline == {0, 5, 9, 10, 11, 22, 30}

\* signatures per day in the last interval before the deadline
PreDeadlineSlopes == {RZero, R(10), R(50), R(100)}

BayesArgs ==
    {[observed_rate |-> o, days_post_deadline |-> dd,
      clerk_window_days |-> CLERK_WINDOW_DAYS] :
        o \in ObservedRates, dd \in DaysPostDeadline}

SurvivalArgs ==
    {[verified |-> R(PerMille(t, v)), threshold |-> t,
      post_deadline_removal_rate |-> o, days_post_deadline |-> dd,
      pre_deadline_slope |-> sl] :
        t \in SurvivalThresholds, v \in SurvivalVerifiedMilles,
        o \in ObservedRates, dd \in DaysPostDeadline, sl \in PreDeadlineSlopes}

CallSurvivalInit ==
    /\ \/ pc = "bayes_call" /\ call_args \in BayesArgs
       \/ pc = "survival_call" /\ call_args \in SurvivalArgs
    /\ call_ret = NoReturn

\* bayesian_removal_rate(observed_rate, days_post_deadline)
BayesianRemovalRateCall ==
    /\ pc = "bayes_call"
    /\ call_ret' = [rate |-> bayesian_removal_rate(call_args.observed_rate,
                                                   call_args.days_post_deadline,
                                                   call_args.clerk_window_days)]
    /\ pc' = "bayes_returned"
    /\ UNCHANGED call_args
    /\ UNCHANGED outsideCall

\* compute_district_prob_survival(...); peak_verified, observed_removal_rate
\* and days_remaining, which the function never reads, are handed over as 0
ComputeDistrictProbSurvivalCall ==
    /\ pc = "survival_call"
    /\ call_ret' = [prob |-> compute_district_prob_survival(
                                 call_args.verified, call_args.threshold, 0,
                                 call_args.post_deadline_removal_rate, RZero, 0,
                                 call_args.days_post_deadline,
                                 call_args.pre_deadline_slope),
                    tier |-> ""]
    /\ pc' = "survival_returned"
    /\ UNCHANGED call_args
    /\ UNCHANGED outsideCall

CallSurvivalNext == BayesianRemovalRateCall \/ ComputeDistrictProbSurvivalCall

-----------------------------------------------------------------------------
(* The inputs of one district's iteration *)

\* the districts whose iteration is explored: district 10 has the smallest
\* threshold, which keeps every intermediate value within 32 bits
ModelledDistricts == {10}

\* snapshot dates: two before and two after the submission deadline
SnapshotDays == {-9, -2, 3, 6}

\* a district's count in a snapshot, in thousandths of its threshold
CountMilles == {0, 870, 975, 985, 1000, 1120, 1250}

\* the verified signatures of all the other districts, the same in every snapshot
OtherDistrictsTotals == {0, 137000}

\* how far projections[d]["raw"] lies above the last count, in thousandths
\* of the threshold (linear_project never returns less than the last count)
ProjectionLiftMilles == {0, 40, 150}

\* the day main runs: up to the submission deadline (growth) or after it
Todays == {-5, 0, 1, 7, 14, 22}

RECURSIVE SortedDays(_)
SortedDays(S) ==
    IF S = {} THEN <<>>
    ELSE LET lo == CHOOSE x \in S : \A y \in S : x <= y
         IN  <<lo>> \o SortedDays(S \ {lo})

DayLists ==
    {SortedDays(S) : S \in {T \in SUBSET SnapshotDays : Cardinality(T) \in 1..MaxSnaps}}

\* the snapshot lists of history.json for a district of threshold t, by date
SnapshotLists(t) ==
    UNION {{List([i \in 1..Len(days) |->
                    [day |-> days[i],
                     count |-> PerMille(t, c[i]),
                     total |-> PerMille(t, c[i]) + rest]], Len(days)) :
                c \in [1..Len(days) -> CountMilles], rest \in OtherDistrictsTotals} :
           days \in DayLists}

ZeroWeekly == List([i \in 1..WEEKLY_BUCKETS |-> 0], WEEKLY_BUCKETS)

\* the last four buckets that build_weekly_buckets may return: no dates, a
\* surge, a steady flow, a decline
WeeklyTails == {<<0, 0, 0, 0>>, <<100, 100, 200, 600>>,
                <<300, 300, 300, 250>>, <<400, 400, 300, 100>>}

\* build_weekly_buckets(dates) counts each dated entry of the district once
WeeklyChoices(verified) ==
    {SubSeq(ZeroWeekly, 1, WEEKLY_BUCKETS - 4) \o tail :
        tail \in {w \in WeeklyTails : IntSum(w) <= verified}}

\* what the iteration reads when history.json was loaded: the counts are the
\* last snapshot's or, history.json being stale, exactly the threshold
HistoryInput(d, sn, v, td, lift, w) ==
    [d_num |-> d, verified |-> v, today |-> td, history |-> TRUE, snaps |-> sn,
     raw10 |-> 10 * (sn[Len(sn)].count + PerMille(THRESHOLDS[d], lift)),
     weekly_file |-> w]

\* what the iteration reads when there is no history.json
NoHistoryInput(d, v, td, w) ==
    [d_num |-> d, verified |-> v, today |-> td, history |-> FALSE, snaps |-> <<>>,
     raw10 |-> 0, weekly_file |-> w]

NoRecord == <<>>

DistrictIdle ==
    /\ d_in = <<>>
    /\ d_rec = NoRecord

DistrictInit ==
    /\ pc = "district_body"
    /\ \E d \in ModelledDistricts :
          \/ \E sn \in SnapshotLists(THRESHOLDS[d]) :
                \E v \in {sn[Len(sn)].count, THRESHOLDS[d]},
                   td \in {x \in Todays : x >= sn[Len(sn)].day},
                   lift \in ProjectionLiftMilles,
                   w \in IF Len(sn) = 1 THEN WeeklyChoices(sn[1].count)
                         ELSE {ZeroWeekly} :
                    d_in = HistoryInput(d, sn, v, td, lift, w)
          \/ \E m \in VerifiedMilles, td \in Todays :
                \E w \in WeeklyChoices(PerMille(THRESHOLDS[d], m)) :
                    d_in = NoHistoryInput(d, PerMille(THRESHOLDS[d], m), td, w)
    /\ d_rec = NoRecord

\* post_deadline: the survival branch, then the record
SurvivalIteration ==
    /\ pc = "district_body"
    /\ d_in.today > SUBMISSION_DEADLINE
    /\ d_rec' = DistrictRecord(d_in, TRUE, SurvivalBranch(d_in))
    /\ pc' = "district_recorded"
    /\ UNCHANGED d_in
    /\ UNCHANGED outsideDistrict

\* not post_deadline: the growth branch, then the record
GrowthIteration ==
    /\ pc = "district_body"
    /\ ~(d_in.today > SUBMISSION_DEADLINE)
    /\ d_rec' = DistrictRecord(d_in, FALSE, GrowthBranch(d_in))
    /\ pc' = "district_recorded"
    /\ UNCHANGED d_in
    /\ UNCHANGED outsideDistrict

DistrictNext == SurvivalIteration \/ GrowthIteration

-----------------------------------------------------------------------------
(* main, run after run: each run reads the data.json the previous run wrote *)

\* compute_distribution as one call; each new_dp is bound once it is
\* computed; a write past the end of new_dp raises IndexError, written <<>>
RECURSIVE ConvolveAll(_, _, _)
ConvolveAll(d, ps, j) ==
    IF j > Len(ps) THEN d
    ELSE CHOOSE r \in {IF step.err THEN <<>> ELSE ConvolveAll(step.dp, ps, j + 1) :
                          step \in {Convolve(d, ps[j], Len(ps))}} : TRUE

compute_distribution(ps) == ConvolveAll(InitialDp(Len(ps)), ps, 1)

\* Python's round(x, 2) as a float
Round2(x) == Rat(RoundDigits(x, 2), 100)

\* no data.json on disk
NoData == [present |-> FALSE]

\* (mutant) reprocessing is never detected
NeverReprocessing(prev_data, total_verified) == FALSE

\* lines 597-598: is_reprocessing
IsReprocessing(prev_data, total_verified) ==
    prev_data.present /\ prev_data.meta.totalVerified = total_verified

\* lines 641-648 and 859-864, with the fields of lines 880-900 the deltas
\* are about: the record of district d given the iteration's record rec
WithPrevious(prev_data, is_reprocessing, rec) ==
    LET prev_rec == prev_data.districts[rec.d]
        prev_verified == IF is_reprocessing THEN prev_rec.prevVerified
                         ELSE IF prev_data.present THEN prev_rec.verified
                         ELSE rec.verified
        delta == IF is_reprocessing THEN prev_rec.delta
                 ELSE rec.verified - prev_verified
        prev_prob == IF is_reprocessing THEN prev_rec.prevProb
                     ELSE IF prev_data.present THEN prev_rec.prob
                     ELSE rec.all_prob
        prob_delta == IF is_reprocessing THEN prev_rec.probDelta
                      ELSE Round4(RSub(rec.all_prob, prev_prob))
    IN  [d |-> rec.d,
         threshold |-> rec.threshold,
         verified |-> rec.verified,
         prevVerified |-> prev_verified,
         delta |-> delta,
         prob |-> rec.prob,
         prevProb |-> Round4(prev_prob),
         probDelta |-> Round4(prob_delta),
         tier |-> rec.tier]

\* sum(district_counts.values())
RECURSIVE IntSumRange(_, _, _)
IntSumRange(s, lo, hi) ==
    IF lo > hi THEN 0
    ELSE IF lo = hi THEN s[lo]
    ELSE IntSumRange(s, lo, (lo + hi) \div 2) + IntSumRange(s, (lo + hi) \div 2 + 1, hi)

\* lines 636-900 without the previous run's fields: the 29 iterations of the
\* district loop; x.counts is district_counts, x.today the day of the run;
\* the runs explored have no history.json and no dated entries
Iterations(x) ==
    List([d \in 1..TOTAL_DISTRICTS |->
            LET in == NoHistoryInput(d, x.counts[d], x.today, ZeroWeekly)
            IN  DistrictRecord(in, x.today > SUBMISSION_DEADLINE,
                               IF x.today > SUBMISSION_DEADLINE THEN SurvivalBranch(in)
                               ELSE GrowthBranch(in))],
         TOTAL_DISTRICTS)

\* all_probs
AllProbs(recs) ==
    List([d \in 1..TOTAL_DISTRICTS |-> recs[d].all_prob], TOTAL_DISTRICTS)

\* main's output document, from the loaded prev_data, total_verified, the
\* iterations' records and dist = compute_distribution(all_probs)
Output(prev_data, x, total_verified, recs, dist) ==
    LET is_reprocessing == IsReprocessing(prev_data, total_verified)
        prev_p_qualify == IF prev_data.present THEN prev_data.overall.pQualify ELSE RZero
        prev_expected_districts ==
            IF prev_data.present THEN prev_data.overall.expectedDistricts ELSE RZero
        p_qual == CorrelationAdjusted(p_qualify(dist))
        exp_districts == expected_districts(AllProbs(recs))
    IN  [present |-> TRUE,
         meta |-> [totalVerified |-> total_verified,
                   modelMode |-> IF x.today > SUBMISSION_DEADLINE THEN "survival"
                                 ELSE "growth"],
         districts |-> List([d \in 1..TOTAL_DISTRICTS |->
                               WithPrevious(prev_data, is_reprocessing, recs[d])],
                            TOTAL_DISTRICTS),
         overall |-> [pQualify |-> Round4(p_qual),
                      expectedDistricts |-> Round2(exp_districts)],
         snapshot |-> [overallProbDelta |->
                           IF is_reprocessing THEN prev_data.snapshot.overallProbDelta
                           ELSE Round4(RSub(p_qual, prev_p_qualify)),
                       expectedDistrictsDelta |->
                           IF is_reprocessing
                           THEN prev_data.snapshot.expectedDistrictsDelta
                           ELSE Round2(RSub(exp_districts, prev_expected_districts))]]

\* the inputs of a run: districts 1..k other than district 10 stand at their
\* thresholds, the rest at 0, and district 10 at c10
CountsOf(k, c10) ==
    List([d \in 1..TOTAL_DISTRICTS |->
            IF d = 10 THEN c10 ELSE IF d <= k THEN THRESHOLDS[d] ELSE 0],
         TOTAL_DISTRICTS)

\* how many districts submit enough signatures
FullDistricts == {25, 26, 29}

\* district 10's count: just short of its threshold, or at it
District10Counts == {PerMille(THRESHOLDS[10], 985), THRESHOLDS[10]}

\* the same statewide total with two districts changed: district 11 one
\* hundredth short of what it had, district 12 up by as much
Moved(counts) ==
    LET short == counts[11] - PerMille(counts[11], 990)
    IN  [counts EXCEPT ![11] = @ - short, ![12] = @ + short]

\* district_counts as parse_xlsx returns it
RunCounts ==
    {CountsOf(k, c10) : k \in FullDistricts, c10 \in District10Counts}
        \cup {Moved(CountsOf(TOTAL_DISTRICTS, THRESHOLDS[10]))}

\* the days main runs: the submission deadline and the clerk deadline
RunDays == {SUBMISSION_DEADLINE, CLERK_DEADLINE}

NoInput == [counts |-> <<>>, today |-> SUBMISSION_DEADLINE]

RunIdle ==
    /\ data = NoData
    /\ prev_out = NoData
    /\ run_x = NoInput
    /\ prev_x = NoInput
    /\ runs = 0

RunInit ==
    /\ pc = "between_runs"
    /\ data = NoData
    /\ prev_out = NoData
    /\ run_x = NoInput
    /\ prev_x = NoInput
    /\ runs = 0

\* one run of main: data.json is read, then overwritten
MainRun ==
    /\ pc = "between_runs"
    /\ runs < MaxRuns
    /\ \E counts \in RunCounts, td \in {t \in RunDays : t >= run_x.today} :
         \E x \in {[counts |-> counts, today |-> td]} :
          \E total_verified \in {IntSumRange(x.counts, 1, Len(x.counts))} :
           \E recs \in {Iterations(x)} :
            \E dist \in {compute_distribution(AllProbs(recs))} :
                /\ data' = Output(data, x, total_verified, recs, dist)
                /\ run_x' = x
    /\ prev_out' = data
    /\ prev_x' = run_x
    /\ runs' = runs + 1
    /\ pc' = pc
    /\ UNCHANGED outsideRun

RunNext == MainRun

-----------------------------------------------------------------------------
(* replay.py: the regression, the anomaly scan and the snapshot deltas *)

\* decay ** k with decay = 0.75
RECURSIVE DecayPow(_)
DecayPow(k) == IF k = 0 THEN ROne ELSE RMul(Dec(75, 2), DecayPow(k - 1))

\* line 113 without its max
ProjectedUnclamped(projected, last_count) == projected

\* line 113: max(projected, float(ys[-1]))
NeverBelowLast(projected, last_count) == RMax(projected, R(last_count))

\* replay.py linear_project: history_vals is the list of (date, count) pairs
\* of one district, each written [day, count]
linear_project(history_vals, target_date) ==
    LET n == Len(history_vals)
        base_date == history_vals[1].day
        xs == List([i \in 1..n |-> history_vals[i].day - base_date], n)
        ys == List([i \in 1..n |-> history_vals[i].count], n)
        ws == List([i \in 1..n |-> DecayPow(n - i)], n)
        W == RSum(ws)
        xbar == RDiv(RSum(List([i \in 1..n |-> RMul(ws[i], R(xs[i]))], n)), W)
        ybar == RDiv(RSum(List([i \in 1..n |-> RMul(ws[i], R(ys[i]))], n)), W)
        num == RSum(List([i \in 1..n |->
                   RMul(RMul(ws[i], RSub(R(xs[i]), xbar)), RSub(R(ys[i]), ybar))], n))
        den == RSum(List([i \in 1..n |->
                   RMul(RMul(ws[i], RSub(R(xs[i]), xbar)), RSub(R(xs[i]), xbar))], n))
        slope == RDiv(num, den)
        intercept == RSub(ybar, RMul(slope, xbar))
        target_x == target_date - base_date
        projected == RAdd(intercept, RMul(slope, R(target_x)))
    IN  IF n < 2 THEN (IF n = 0 THEN RZero ELSE R(history_vals[n].count))
        ELSE IF den = RZero THEN R(ys[n])
        ELSE NeverBelowLast(projected, ys[n])

\* the districts followed: two that the spreadsheets hold counts for and one
\* of those they do not mention, whose count is 0 in every snapshot
ReplayDistricts == <<10, 11, 12>>

\* detect_anomalies is called with threshold_pct = 0.02
ANOMALY_THRESHOLD_PCT == Dec(2, 2)

\* line 252: observed net gain
Delta(diff) == Max(0, diff)

\* line 253 with abs in place of max(0, -diff)
RemovalMagnitude(diff) == Abs(diff)

\* line 253: observed net loss
Removal(diff) == Max(0, -diff)

\* lines 219-226: the snapshot appended for one file
LoadedSnapshot(f) ==
    [day |-> f.day, total |-> IntSum(f.counts), districts |-> f.counts]

ZeroPerDistrict == List([k \in 1..Len(ReplayDistricts) |-> 0], Len(ReplayDistricts))

\* lines 233-239: the first snapshot
FirstSnapshotDeltas(snap) ==
    [day |-> snap.day, total |-> snap.total, districts |-> snap.districts,
     deltas |-> ZeroPerDistrict, removals |-> ZeroPerDistrict, net |-> ZeroPerDistrict,
     totalDelta |-> 0, totalRemovals |-> 0]

\* lines 240-259: a later snapshot, against the one before it
SnapshotDeltas(snap, prev) ==
    LET nd == Len(ReplayDistricts)
        diff == List([k \in 1..nd |-> snap.districts[k] - prev.districts[k]], nd)
        removals == List([k \in 1..nd |-> Removal(diff[k])], nd)
    IN  [day |-> snap.day, total |-> snap.total, districts |-> snap.districts,
         deltas |-> List([k \in 1..nd |-> Delta(diff[k])], nd),
         removals |-> removals,
         net |-> diff,
         totalDelta |-> snap.total - prev.total,
         totalRemovals |-> IntSum(removals)]

\* line 136 with > in place of >=
IsAnomalousDropStrict(prev_count, cur_count, threshold_pct) ==
    /\ prev_count # 0
    /\ prev_count - cur_count > 0
    /\ RLt(threshold_pct, Rat(prev_count - cur_count, prev_count))

\* lines 132-136: the test of one (snapshot pair, district)
IsAnomalousDrop(prev_count, cur_count, threshold_pct) ==
    /\ prev_count # 0
    /\ prev_count - cur_count > 0
    /\ RLe(threshold_pct, Rat(prev_count - cur_count, prev_count))

\* lines 137-145: the record appended
AnomalyRecord(prev, cur, k) ==
    [date |-> cur.day, district |-> ReplayDistricts[k],
     prevCount |-> prev.districts[k], curCount |-> cur.districts[k],
     drop |-> prev.districts[k] - cur.districts[k],
     dropPct |-> Round4(Rat(prev.districts[k] - cur.districts[k], prev.districts[k])),
     prevDate |-> prev.day]

\* lines 126-145: the two loops from pair i (snaps[i - 1], snaps[i]) and
\* district k on, in the order of the appends
RECURSIVE ScanAnomalies(_, _, _, _)
ScanAnomalies(snaps, threshold_pct, i, k) ==
    IF i > Len(snaps) THEN <<>>
    ELSE IF k > Len(ReplayDistricts) THEN ScanAnomalies(snaps, threshold_pct, i + 1, 1)
    ELSE (IF IsAnomalousDrop(snaps[i - 1].districts[k], snaps[i].districts[k],
                             threshold_pct)
          THEN <<AnomalyRecord(snaps[i - 1], snaps[i], k)>>
          ELSE <<>>)
         \o ScanAnomalies(snaps, threshold_pct, i, k + 1)

\* sorted(..., key dropPct, reverse=True) is stable: a goes behind every entry
\* whose dropPct is not smaller
RECURSIVE InsertByDropPct(_, _)
InsertByDropPct(sorted, a) ==
    IF sorted = <<>> THEN <<a>>
    ELSE IF RLe(a.dropPct, Head(sorted).dropPct)
         THEN <<Head(sorted)>> \o InsertByDropPct(Tail(sorted), a)
    ELSE <<a>> \o sorted

RECURSIVE SortedByDropPct(_, _, _)
SortedByDropPct(list, acc, i) ==
    IF i > Len(list) THEN acc
    ELSE SortedByDropPct(list, InsertByDropPct(acc, list[i]), i + 1)

\* replay.py detect_anomalies
detect_anomalies(snaps, threshold_pct) ==
    SortedByDropPct(ScanAnomalies(snaps, threshold_pct, 2, 1), <<>>, 1)

\* history_by_district[d] for the k-th district of the spreadsheets
HistoryVals(snaps, k) ==
    List([i \in 1..Len(snaps) |-> [day |-> snaps[i].day, count |-> snaps[i].districts[k]]],
         Len(snaps))

\* lines 305-317: projections[str(d)]; pctOfThreshold, which only the
\* dashboard reads, is left out
Projection(snaps, k) ==
    LET vals == HistoryVals(snaps, k)
        proj == linear_project(vals, CLERK_DEADLINE)
        rejection_adjusted == RMul(proj, RSub(ROne, compute_rejection_rate(vals)))
    IN  [raw |-> Rat(RoundDigits(proj, 1), 10),
         rejectionAdjusted |-> Rat(RoundDigits(rejection_adjusted, 1), 10),
         threshold |-> THRESHOLDS[ReplayDistricts[k]]]

-----------------------------------------------------------------------------
(* replay.py main, phase by phase, and process.py reading what it wrote *)

\* counts of the first district in a spreadsheet: a decline of exactly 2%
\* (100 -> 98), smaller ones (100 -> 99, 99 -> 98), a larger one, gains, and
\* the loss of every signature, as when a spreadsheet misses the district
ReplayCounts == {0, 90, 98, 99, 100}

\* the first district's count in the oldest spreadsheet; it is the district's
\* peak, which keeps its rejection rate at two decimals
ReplayFirstCount == 100

\* counts of the second district: 50 -> 49 is a decline of exactly 2% as well
ReplayCountsB == {49, 50}

\* the dates of the spreadsheets, oldest first: all up to the submission
\* deadline, around it, all after it
ReplayDayLists == {<<-4, -3, -1, 0>>, <<-2, 0, 1, 3>>, <<1, 2, 4, 5>>}

\* lines 203-206: the files, sorted by name, each with what parse_xlsx_counts
\* returns for it
FilesOf(days, n, a, b) ==
    List([i \in 1..n |-> [day |-> days[i], counts |-> <<a[i], b[i], 0>>]], n)

TailIdle ==
    /\ districts_out = <<>>
    /\ after_loop = <<>>
    /\ tail_in = <<>>
    /\ statewide = <<>>

ReplayIdle ==
    /\ files = <<>>
    /\ snapshots = <<>>
    /\ snap_i = 0
    /\ anomalies = <<>>
    /\ hist_out = <<>>

ReplayInit ==
    /\ pc = "replay_load"
    /\ \E days \in ReplayDayLists :
        \E n \in {m \in 1..Len(days) : m <= MaxFiles} :
         \E a \in {f \in [1..n -> ReplayCounts] : f[1] = ReplayFirstCount},
            b \in [1..n -> ReplayCountsB] :
            files = FilesOf(days, n, a, b)
    /\ snapshots = <<>>
    /\ snap_i = 0
    /\ anomalies = <<>>
    /\ hist_out = <<>>

\* lines 216-229: one snapshot per file
ReplayLoad ==
    /\ pc = "replay_load"
    /\ snapshots' = List([i \in 1..Len(files) |-> LoadedSnapshot(files[i])], Len(files))
    /\ pc' = "replay_deltas"
    /\ UNCHANGED <<files, snap_i, anomalies, hist_out>>
    /\ UNCHANGED outsideReplay

\* lines 232-259: one iteration of `for i, snap in enumerate(snapshots)`
ReplayDeltaStep ==
    /\ pc = "replay_deltas"
    /\ snap_i < Len(snapshots)
    /\ snapshots' = [snapshots EXCEPT ![snap_i + 1] =
                        IF snap_i = 0 THEN FirstSnapshotDeltas(@)
                        ELSE SnapshotDeltas(@, snapshots[snap_i])]
    /\ snap_i' = snap_i + 1
    /\ pc' = pc
    /\ UNCHANGED <<files, anomalies, hist_out>>
    /\ UNCHANGED outsideReplay

\* line 263: anomalies = detect_anomalies(snapshots, threshold_pct=0.02)
ReplayDetectAnomalies ==
    /\ pc = "replay_deltas"
    /\ snap_i = Len(snapshots)
    /\ anomalies' = detect_anomalies(snapshots, ANOMALY_THRESHOLD_PCT)
    /\ pc' = "replay_rates"
    /\ UNCHANGED <<files, snapshots, snap_i, hist_out>>
    /\ UNCHANGED outsideReplay

\* lines 273-297: peak_verified, post_deadline_rates, rejection_rates
ReplayRates ==
    /\ pc = "replay_rates"
    /\ LET nd == Len(ReplayDistricts)
       IN  hist_out' =
              [peakVerified |->
                   List([k \in 1..nd |-> MaxOf(Counts(HistoryVals(snapshots, k)))], nd),
               postDeadlineRemovalRates |->
                   List([k \in 1..nd |->
                           compute_post_deadline_removal_rates(HistoryVals(snapshots, k))],
                        nd),
               rejectionRates |->
                   List([k \in 1..nd |-> compute_rejection_rate(HistoryVals(snapshots, k))],
                        nd)]
    /\ pc' = "replay_projections"
    /\ UNCHANGED <<files, snapshots, snap_i, anomalies>>
    /\ UNCHANGED outsideReplay

\* lines 302-317 and 341-366: the projections, then history.json is written
ReplayProjections ==
    /\ pc = "replay_projections"
    /\ LET nd == Len(ReplayDistricts)
       IN  hist_out' =
              [peakVerified |-> hist_out.peakVerified,
               postDeadlineRemovalRates |-> hist_out.postDeadlineRemovalRates,
               rejectionRates |-> hist_out.rejectionRates,
               projections |-> List([k \in 1..nd |-> Projection(snapshots, k)], nd)]
    /\ pc' = "replay_written"
    /\ UNCHANGED <<files, snapshots, snap_i, anomalies>>
    /\ UNCHANGED outsideReplay

\* what the loop body reads for the k-th of the followed districts, process.py
\* being run on the day of the last spreadsheet
PipelineInput(k) ==
    LET n == Len(snapshots)
    IN  [d_num |-> ReplayDistricts[k],
         verified |-> snapshots[n].districts[k],
         today |-> snapshots[n].day,
         history |-> TRUE,
         snaps |-> List([i \in 1..n |->
                           [day |-> snapshots[i].day,
                            count |-> snapshots[i].districts[k],
                            total |-> snapshots[i].total]], n),
         raw10 |-> RoundDigits(hist_out.projections[k].raw, 1),
         weekly_file |-> ZeroWeekly]

\* process.py main reads history.json and the last spreadsheet's counts and
\* enters the loop body for the first district
ProcessReadsHistory ==
    /\ pc = "replay_written"
    /\ d_in' = PipelineInput(1)
    /\ pc' = "district_body"
    /\ UNCHANGED d_rec
    /\ UNCHANGED replayVars
    /\ UNCHANGED outsidePipeline

\* lines 641-648 with no data.json of an earlier run: prev_rec is {} and
\* is_reprocessing is False, so prev_verified is verified and delta is 0
FirstRunDelta(rec) == rec.verified - rec.verified

\* lines 880-900: districts_out.append({...}); the loop then goes on to the
\* next district or ends
AppendRecord ==
    /\ pc = "district_recorded"
    /\ districts_out' = Append(districts_out,
                               d_rec @@ [prevVerified |-> d_rec.verified,
                                         delta |-> FirstRunDelta(d_rec)])
    /\ IF Len(districts_out) + 1 < Len(ReplayDistricts)
       THEN /\ d_in' = PipelineInput(Len(districts_out) + 2)
            /\ pc' = "district_body"
       ELSE /\ d_in' = d_in
            /\ pc' = "loop_done"
    /\ UNCHANGED <<d_rec, after_loop, tail_in, statewide>>
    /\ UNCHANGED replayVars
    /\ UNCHANGED <<distVars, bloomVars, callVars, runVars>>

\* line 957: anomaly_districts
AnomalyDistricts(anoms) == {anoms[i].district : i \in 1..Len(anoms)}

\* line 960: round(min(0.05, rate + 0.01), 4)
BumpedRate(rate) == Round4(RMin(Dec(5, 2), RAdd(rate, Dec(1, 2))))

\* lines 958-960 with the test of line 959 left out
BumpEveryRecord(rec, anomaly_districts) ==
    [rec EXCEPT !.rejectionRate = BumpedRate(@)]

\* lines 958-960, for one record
BumpRecord(rec, anomaly_districts) ==
    IF rec.d \in anomaly_districts
    THEN [rec EXCEPT !.rejectionRate = BumpedRate(@)]
    ELSE rec

\* lines 956-960: the anomalies of history.json raise rejection rates
AnomalyStep ==
    /\ pc = "loop_done"
    /\ after_loop' = districts_out
    /\ districts_out' =
          List([k \in 1..Len(districts_out) |->
                  BumpRecord(districts_out[k], AnomalyDistricts(anomalies))],
               Len(districts_out))
    /\ pc' = "anomalies_applied"
    /\ UNCHANGED <<tail_in, statewide>>
    /\ UNCHANGED <<d_in, d_rec>>
    /\ UNCHANGED replayVars
    /\ UNCHANGED <<distVars, bloomVars, callVars, runVars>>

ReplayNext ==
    \/ ReplayLoad
    \/ ReplayDeltaStep
    \/ ReplayDetectAnomalies
    \/ ReplayRates
    \/ ReplayProjections
    \/ ProcessReadsHistory
    \/ SurvivalIteration
    \/ GrowthIteration
    \/ AppendRecord
    \/ AnomalyStep

-----------------------------------------------------------------------------
(* Specifications *)

InitDist == DistInit /\ BloomIdle /\ CallIdle /\ DistrictIdle /\ RunIdle /\ ReplayIdle /\ TailIdle

SpecDist == InitDist /\ [][DistNext]_vars

InitBloom == BloomInit /\ DistIdle /\ CallIdle /\ DistrictIdle /\ RunIdle /\ ReplayIdle /\ TailIdle

SpecBloom == InitBloom /\ [][BloomNext]_vars

InitGrowthFn == CallGrowthInit /\ DistIdle /\ BloomIdle /\ DistrictIdle /\ RunIdle /\ ReplayIdle /\ TailIdle

SpecGrowthFn == InitGrowthFn /\ [][CallGrowthNext]_vars

InitSurvivalFn == CallSurvivalInit /\ DistIdle /\ BloomIdle /\ DistrictIdle /\ RunIdle /\ ReplayIdle /\ TailIdle

SpecSurvivalFn == InitSurvivalFn /\ [][CallSurvivalNext]_vars

InitDistrict == DistrictInit /\ DistIdle /\ BloomIdle /\ CallIdle /\ RunIdle /\ ReplayIdle /\ TailIdle

SpecDistrict == InitDistrict /\ [][DistrictNext]_vars

InitRun == RunInit /\ DistIdle /\ BloomIdle /\ CallIdle /\ DistrictIdle /\ ReplayIdle /\ TailIdle

SpecRun == InitRun /\ [][RunNext]_vars

InitReplay == ReplayInit /\ DistIdle /\ BloomIdle /\ CallIdle /\ DistrictIdle /\ RunIdle /\ TailIdle

SpecReplay == InitReplay /\ [][ReplayNext]_vars

-----------------------------------------------------------------------------
(* Properties of the qualification distribution engine (SpecDist) *)

DistReturned == pc \in {"dist_returned", "dist_qualified", "dist_main"}

IsDistribution(d, n) ==
    /\ Len(d) = n + 1
    /\ \A k \in 1..Len(d) : RLe(RZero, d[k])
    /\ RSum(d) = ROne

\* C2: for every probability vector of length n >= 0, compute_distribution
\* returns n+1 non-negative entries that sum to 1, and [1.0] for the empty vector.
C2_DistributionSumsToOne ==
    DistReturned =>
        /\ IsDistribution(dp, Len(probs))
        /\ IsDistribution(dp_hi, Len(probs_hi))
        /\ (probs = <<>> => dp = <<ROne>>)

C2_Witness ==
    /\ pc = "dist_returned"
    /\ Len(probs) = TOTAL_DISTRICTS
    /\ \E k \in 1..Len(dp) : RLt(RZero, dp[k]) /\ RLt(dp[k], ROne)

\* C3: raising one district probability, the others fixed, never lowers
\* p_qualify(compute_distribution(probs)).
C3_QualifyMonotone ==
    pc \in {"dist_qualified", "dist_main"} => RLe(p_qual_raw, p_qual_raw_hi)

C3_Witness ==
    /\ pc = "dist_qualified"
    /\ probs # probs_hi
    /\ RLt(RZero, p_qual_raw)
    /\ RLt(p_qual_raw, p_qual_raw_hi)

\* C4: the correlation-adjusted qualification probability is 0.97 of the raw
\* one, so 0 <= adjusted <= raw, and the penalty touches only that scalar:
\* pExact is the rounded distribution itself, still a distribution of sum 1.
C4_PenaltyBounded ==
    pc = "dist_main" =>
        /\ RLe(RZero, overall.p_qual)
        /\ RLe(overall.p_qual, p_qual_raw)
        /\ overall.p_qual = RMul(<<97, 100>>, p_qual_raw)
        /\ \A k \in 1..(TOTAL_DISTRICTS + 1) :
              overall.p_exact[k] = RoundDigits(dp[k], 6)
        /\ RSum(dp) = ROne

C4_Witness ==
    /\ pc = "dist_main"
    /\ RLt(RZero, overall.p_qual)
    /\ RLt(overall.p_qual, p_qual_raw)
    /\ RLt(p_qual_raw, ROne)

\* C7: the qualification probability is the tail sum of dp over
\* k >= required_count for whatever required count and number of districts
\* are in use (8 of 9 districts at 0.9 each: C(9,8)*0.9^8*0.1 + 0.9^9).
C7_TailSumAtRequiredCount ==
    (pc \in {"dist_qualified", "dist_main"} /\ required_count >= 0) =>
        p_qual_raw = RSum(PySliceFrom(dp, required_count))

-----------------------------------------------------------------------------
(* Properties of the lookup index builder (SpecBloom) *)

\* whether position pos is set in the bit array
PositionSet(bs, pos) == pos \div 8 < Len(bs) /\ HasBit(bs[(pos \div 8) + 1], pos % 8)

\* C5: no false negatives: once a key is inserted, each of its k positions is
\* set, whatever was inserted before or after it; in the filter returned by
\* build_bloom_filter this holds of every key of keys.
C5_NoFalseNegatives ==
    /\ pc \in {"bloom_loop", "bloom_built"} =>
          \A j \in 1..key_i : \A i \in 1..bloom_k :
              PositionSet(bits, bloom_hash_positions(keys[j], bloom_m, bloom_k)[i])
    /\ pc = "bloom_built" => key_i = Len(keys)

C5_Witness ==
    /\ pc = "bloom_built"
    /\ Len(keys) = 2
    /\ keys[1] # keys[2]
    /\ bloom_k = 3
    /\ \E i \in 1..bloom_k, j \in 1..bloom_k :
          /\ bloom_hash_positions(keys[1], bloom_m, bloom_k)[i] # bloom_hash_positions(keys[2], bloom_m, bloom_k)[j]
          /\ bloom_hash_positions(keys[1], bloom_m, bloom_k)[i] \div 8
                = bloom_hash_positions(keys[2], bloom_m, bloom_k)[j] \div 8

-----------------------------------------------------------------------------
(* Properties of compute_district_prob and classify_tier (SpecGrowthFn) *)

CallProjPct == RDiv(call_args.projected_adj, R(call_args.threshold))

\* C10: a district below its threshold whose projected_adj / threshold lies in
\* [0, 0.65) gets from compute_district_prob a value in [0, 0.02].
C10_FarBandAtMostTwoPercent ==
    (/\ pc \in {"growth_returned", "tier_returned"}
     /\ call_args.verified < call_args.threshold
     /\ RLe(RZero, CallProjPct)
     /\ RLt(CallProjPct, Dec(65, 2)))
        => (RLe(RZero, call_ret.prob) /\ RLe(call_ret.prob, Dec(2, 2)))


-----------------------------------------------------------------------------
(* Properties of one district's record (SpecDistrict) *)

Recorded == pc = "district_recorded"

AtThreshold == d_rec.verified >= d_rec.threshold

\* C1 as stated: in every record, of growth mode and of survival mode alike,
\* prob is 1.0 exactly when verified >= threshold.
C1_ProbOneIffAtThreshold ==
    Recorded => (AtThreshold <=> d_rec.prob = ROne)

\* C1, amended: in growth mode prob is 1.0 exactly when verified >= threshold;
\* in survival mode a district with verified >= threshold has prob in
\* [0.90, 1.0], not necessarily 1.0.
C1_GrowthProbOneIffAtThreshold ==
    /\ (Recorded /\ d_rec.mode = "growth") =>
            (AtThreshold <=> d_rec.prob = ROne)
    /\ (Recorded /\ d_rec.mode = "survival" /\ AtThreshold) =>
            (RLe(Dec(90, 2), d_rec.prob) /\ RLe(d_rec.prob, ROne))

\* a growth-mode record, read with history.json, of a district at its threshold
C1_Witness ==
    /\ Recorded
    /\ d_rec.mode = "growth"
    /\ d_in.history
    /\ d_rec.verified = d_rec.threshold
    /\ d_rec.prob = ROne

\* C9 as stated: a district with verified >= threshold is reported with prob
\* 1.0 and tier CONFIRMED, and the tier is CONFIRMED exactly when the prob
\* handed to classify_tier is >= 1.0.
C9_AtThresholdConfirmed ==
    /\ (Recorded /\ AtThreshold) =>
            (d_rec.prob = ROne /\ d_rec.tier = "CONFIRMED")
    /\ Recorded => (d_rec.tier = "CONFIRMED" <=> RLe(ROne, d_rec.all_prob))

\* C9, amended: in growth mode a district with verified >= threshold is
\* reported with prob 1.0 and tier CONFIRMED; in survival mode it is reported
\* CONFIRMED or NEARLY CERTAIN; in both modes and for every pct_verified the
\* tier is CONFIRMED exactly when the prob handed to classify_tier is >= 1.0.
C9_GrowthAtThresholdConfirmed ==
    /\ (Recorded /\ d_rec.mode = "growth" /\ AtThreshold) =>
            (d_rec.prob = ROne /\ d_rec.tier = "CONFIRMED")
    /\ (Recorded /\ d_rec.mode = "survival" /\ AtThreshold) =>
            d_rec.tier \in {"CONFIRMED", "NEARLY CERTAIN"}
    /\ Recorded => (d_rec.tier = "CONFIRMED" <=> RLe(ROne, d_rec.all_prob))

\* a growth-mode record of a district well above its threshold, CONFIRMED
C9_Witness ==
    /\ Recorded
    /\ d_rec.mode = "growth"
    /\ d_rec.verified > d_rec.threshold
    /\ d_rec.all_prob = ROne
    /\ d_rec.tier = "CONFIRMED"

-----------------------------------------------------------------------------
(* Properties of consecutive runs (SpecRun) *)

Districts == 1..TOTAL_DISTRICTS

\* the fields a rerun carries forward are the same in documents a and b
SameCarried(a, b) ==
    /\ \A d \in Districts :
          /\ a.districts[d].prevVerified = b.districts[d].prevVerified
          /\ a.districts[d].delta = b.districts[d].delta
          /\ a.districts[d].prevProb = b.districts[d].prevProb
          /\ a.districts[d].probDelta = b.districts[d].probDelta
    /\ a.snapshot.overallProbDelta = b.snapshot.overallProbDelta
    /\ a.snapshot.expectedDistrictsDelta = b.snapshot.expectedDistrictsDelta

\* C6: a run on the same input (counts and day) as the run before it, reading
\* what that run wrote, writes the same prevVerified, delta, prevProb and
\* probDelta for every district and the same overallProbDelta and
\* expectedDistrictsDelta: they are carried forward.
C6_ReprocessingCarriesForward ==
    (runs >= 2 /\ run_x = prev_x) => SameCarried(data, prev_out)

\* a rerun after a run that changed counts and probabilities: the deltas it
\* carries forward are not zero
C6_Witness ==
    /\ runs >= 2
    /\ run_x = prev_x
    /\ \E d \in Districts :
          /\ data.districts[d].delta # 0
          /\ data.districts[d].probDelta # RZero
          /\ data.districts[d].prevProb # data.districts[d].prob
    /\ data.snapshot.overallProbDelta # RZero
    /\ data.snapshot.expectedDistrictsDelta # RZero

\* C8: after a first run, one that found no data.json, every district has
\* prevVerified = verified, delta = 0, prevProb = prob and probDelta = 0, and
\* overallProbDelta and expectedDistrictsDelta are 0.
C8_FirstRunNetZero ==
    (runs >= 1 /\ ~prev_out.present) =>
        /\ \A d \in Districts :
              /\ data.districts[d].prevVerified = data.districts[d].verified
              /\ data.districts[d].delta = 0
              /\ data.districts[d].prevProb = data.districts[d].prob
              /\ data.districts[d].probDelta = RZero
        /\ data.snapshot.overallProbDelta = RZero
        /\ data.snapshot.expectedDistrictsDelta = RZero

-----------------------------------------------------------------------------
(* Properties of compute_district_prob called on its own: the last band *)

CallReturned == pc \in {"growth_returned", "tier_returned"}

CallBelowThreshold == call_args.verified < call_args.threshold

CallBaseScore == Rat(call_args.verified, call_args.threshold)

\* the call reaches the weighted combination with the floor of the squeeze
InSqueezeFloor ==
    /\ CallBelowThreshold
    /\ RLe(Dec(95, 2), CallBaseScore)
    /\ RLe(Dec(90, 2), CallProjPct)

\* C11: for a district below its threshold with verified / threshold >= 0.95
\* and projected_adj / threshold >= 0.90, compute_district_prob returns a
\* value in [0.85, 0.99], whatever the trend, the rejection rate in [0, 1] and
\* the final-week count.
C11_SqueezeFloor ==
    (CallReturned /\ InSqueezeFloor) =>
        (RLe(Dec(85, 2), call_ret.prob) /\ RLe(call_ret.prob, Dec(99, 2)))

\* the floor decides the result: every signature rejected, no velocity bonus,
\* and the call still returns 0.85
C11_Witness ==
    /\ CallReturned
    /\ InSqueezeFloor
    /\ call_args.rejection_rate = ROne
    /\ call_args.final_week_sigs = 0
    /\ call_ret.prob = Dec(85, 2)

\* the worked scenario: 4900 of 5000, ACCEL, 600 final-interval signatures,
\* rejection_rate 0.02
C11_Scenario ==
    /\ CallReturned
    /\ call_args.verified = 4900 /\ call_args.threshold = 5000
    /\ call_args.trend = "ACCEL" /\ call_args.final_week_sigs = 600
    /\ call_args.rejection_rate = Dec(2, 2)
    /\ RLe(Dec(90, 2), CallProjPct)

-----------------------------------------------------------------------------
(* Properties of bayesian_removal_rate and compute_district_prob_survival
   called on their own *)

BayesReturned == pc = "bayes_returned"

SurvivalReturned == pc = "survival_returned"

\* the empirical prior, 1.65%
RemovalPrior == Dec(165, 4)

\* x lies between a and b, whichever of the two is larger
Between(x, a, b) == RLe(RMin(a, b), x) /\ RLe(x, RMax(a, b))

\* C17: bayesian_removal_rate returns
\* credibility * observed + (1 - credibility) * 0.0165 with
\* credibility = min(1, days_post_deadline / clerk_window_days): a value between
\* the observed rate and the prior, the prior at day 0, the observed rate once
\* days_post_deadline >= clerk_window_days, and before that the blend in which
\* the observed rate weighs days_post_deadline parts of clerk_window_days.
C17_ConvexBlend ==
    BayesReturned =>
        LET o == call_args.observed_rate
            dd == call_args.days_post_deadline
            cw == call_args.clerk_window_days
        IN  /\ Between(call_ret.rate, o, RemovalPrior)
            /\ (dd = 0) => (call_ret.rate = RemovalPrior)
            /\ (dd >= cw) => (call_ret.rate = o)
            /\ (dd < cw) =>
                  (RMul(call_ret.rate, R(cw))
                     = RAdd(RMul(R(dd), o), RMul(R(cw - dd), RemovalPrior)))

\* a call after the clerk window, with an observed rate that is not the prior:
\* the cap of the credibility decides the result
C17_Witness ==
    /\ BayesReturned
    /\ call_args.days_post_deadline > call_args.clerk_window_days
    /\ call_args.observed_rate # RemovalPrior
    /\ call_ret.rate = call_args.observed_rate

\* a call inside the clerk window whose result lies strictly between the two
C17_Blended ==
    /\ BayesReturned
    /\ call_args.days_post_deadline \in 1..(call_args.clerk_window_days - 1)
    /\ RLt(RemovalPrior, call_ret.rate)
    /\ RLt(call_ret.rate, call_args.observed_rate)

\* effective_rate of the survival call
CallEffectiveRate ==
    bayesian_removal_rate(call_args.post_deadline_removal_rate,
                          call_args.days_post_deadline, CLERK_WINDOW_DAYS)

SurvivalCallAtThreshold == RLe(R(call_args.threshold), call_args.verified)

\* (verified - threshold) / threshold
CallBuffer ==
    RDiv(RSub(call_args.verified, R(call_args.threshold)), R(call_args.threshold))

\* verified * (1 - effective_rate) >= threshold
CallSurvivesRemovals ==
    ProjectedRemainingMeets(call_args.verified, CallEffectiveRate, call_args.threshold)

\* C18: for a district at or above its threshold compute_district_prob_survival
\* returns at least 0.90 (and at most 1.0); with a buffer above 10% it returns
\* exactly 1.0 when verified * (1 - effective_rate) >= threshold and otherwise
\* discounts 1.0 by at most 0.10.
C18_AtThresholdFloor ==
    (SurvivalReturned /\ SurvivalCallAtThreshold) =>
        /\ RLe(Dec(90, 2), call_ret.prob)
        /\ RLe(call_ret.prob, ROne)
        /\ (RLt(Dec(10, 2), CallBuffer) /\ CallSurvivesRemovals) =>
                (call_ret.prob = ROne)
        /\ (RLt(Dec(10, 2), CallBuffer) /\ ~CallSurvivesRemovals) =>
                RLe(RSub(ROne, call_ret.prob), Dec(10, 2))

\* a buffer above 10% that the blended removal rate would use up: the discount
\* is capped and the floor 0.92 is returned
C18_Witness ==
    /\ SurvivalReturned
    /\ RLt(Dec(10, 2), CallBuffer)
    /\ ~CallSurvivesRemovals
    /\ call_ret.prob = Dec(92, 2)

\* within 10% of the threshold with half of the signatures removed: 0.90
C18_CloseFloor ==
    /\ SurvivalReturned
    /\ SurvivalCallAtThreshold
    /\ RLt(CallBuffer, Dec(10, 2))
    /\ RLt(Dec(5, 2), CallEffectiveRate)
    /\ call_ret.prob = Dec(90, 2)

\* 1.0 - verified / threshold
CallGap == RSub(ROne, RDiv(call_args.verified, R(call_args.threshold)))

\* the step lookup as the claim words it
ClaimedStep(gap_pct) ==
    IF RLe(gap_pct, Dec(2, 2)) THEN Dec(18, 2)
    ELSE IF RLe(gap_pct, Dec(5, 2)) THEN Dec(10, 2)
    ELSE IF RLe(gap_pct, Dec(10, 2)) THEN Dec(5, 2)
    ELSE IF RLe(gap_pct, Dec(15, 2)) THEN Dec(2, 2)
    ELSE IF RLe(gap_pct, Dec(25, 2)) THEN Dec(5, 3)
    ELSE RZero

\* what C19 says of a returned call, with `step` the step value of the gap
StepDerived(step) ==
    /\ RLe(call_ret.prob, RMul(Dec(15, 1), step))
    /\ RLt(step, call_ret.prob) =>
          (RLt(RZero, call_args.pre_deadline_slope) /\ call_args.days_post_deadline < 10)
    /\ RLt(call_ret.prob, step) => RLt(Dec(3, 2), CallEffectiveRate)

\* C19: for a district below its threshold compute_district_prob_survival
\* derives its result from the step value of the gap (<= 2% -> 0.18,
\* <= 5% -> 0.10, <= 10% -> 0.05, <= 15% -> 0.02, <= 25% -> 0.005, beyond ->
\* 0.00): never above 1.5 times the step value, above it only with
\* pre_deadline_slope > 0 and fewer than 10 days since the deadline, below it
\* only with an effective removal rate above 3%.
C19_ShortfallStepLookup ==
    (SurvivalReturned /\ ~SurvivalCallAtThreshold) => StepDerived(ClaimedStep(CallGap))

\* the same away from the gaps of exactly 2%, 5% and 15%
C19_OffTheLimits ==
    (SurvivalReturned /\ ~SurvivalCallAtThreshold
       /\ CallGap \notin {Dec(2, 2), Dec(5, 2), Dec(15, 2)}) =>
        StepDerived(ClaimedStep(CallGap))

-----------------------------------------------------------------------------
(* Properties of the survival-mode blend of one district's iteration *)

SurvivalRecorded == Recorded /\ d_rec.mode = "survival"

\* the snapshots of history.json dated after the submission deadline
InPostSnaps == PostSnaps(d_in.snaps)

\* the total of the last snapshot dated up to the submission deadline, 0 if
\* there is none
LastPreTotal ==
    LET pre == PreSnaps(d_in.snaps)
    IN  IF pre = <<>> THEN 0 ELSE pre[Len(pre)].total

\* the statewide gains between consecutive post-deadline snapshots
PostDeadlineGains ==
    IntSum(List([i \in 1..(Len(InPostSnaps) - 1) |->
                    Max(0, InPostSnaps[i + 1].total - InPostSnaps[i].total)],
                Len(InPostSnaps) - 1))

\* those gains are below 0.1% of the last pre-deadline total
GainsBelowTenthPercent ==
    /\ LastPreTotal > 0
    /\ RLt(Rat(PostDeadlineGains, LastPreTotal), Dec(1, 3))

\* prob = lag_weight * growth_prob + (1 - lag_weight) * survival_prob with
\* lag_weight in [0, 1], hence between the two and in [0, 1]
BlendedByLagWeight ==
    /\ RLe(RZero, d_rec.lag_weight) /\ RLe(d_rec.lag_weight, ROne)
    /\ d_rec.all_prob = RAdd(RMul(d_rec.lag_weight, d_rec.growth_prob_for_blend),
                             RMul(RSub(ROne, d_rec.lag_weight), d_rec.survival_prob))
    /\ Between(d_rec.all_prob, d_rec.growth_prob_for_blend, d_rec.survival_prob)
    /\ RLe(RZero, d_rec.all_prob) /\ RLe(d_rec.all_prob, ROne)

C20_LagResolved ==
    /\ SurvivalRecorded
    /\ Len(InPostSnaps) >= 2 /\ GainsBelowTenthPercent
    /\ d_in.today < LG_LAG_DAYS
    /\ d_rec.lag_weight = RZero

-----------------------------------------------------------------------------
(* Properties of replay.py main and of process.py reading its output *)

\* the counts of the k-th followed district, spreadsheet by spreadsheet
SeriesOf(k) == List([i \in 1..Len(files) |-> files[i].counts[k]], Len(files))

\* those of the spreadsheets dated after the submission deadline
PostSeriesOf(k) ==
    LET post == SelectSeq(files, LAMBDA f : f.day > SUBMISSION_DEADLINE)
    IN  List([i \in 1..Len(post) |-> post[i].counts[k]], Len(post))

\* the sum of the declines between consecutive counts
RECURSIVE Declines(_, _)
Declines(counts, i) ==
    IF i >= Len(counts) THEN 0
    ELSE (IF counts[i] > counts[i + 1] THEN counts[i] - counts[i + 1] ELSE 0)
         + Declines(counts, i + 1)

\* the largest count, 0 for an empty series
PeakOf(counts) ==
    IF counts = <<>> THEN 0
    ELSE CHOOSE c \in {counts[i] : i \in 1..Len(counts)} :
            \A i \in 1..Len(counts) : counts[i] <= c

\* rate is declines / peak to four decimals, and 0.0 for fewer than two
\* observations or a zero peak
IsRemovalRateOf(rate, counts) ==
    IF Len(counts) < 2 \/ PeakOf(counts) = 0 THEN rate = RZero
    ELSE rate = Round4(Rat(Declines(counts, 1), PeakOf(counts)))

InUnitInterval(x) == RLe(RZero, x) /\ RLe(x, ROne)

RatesWritten == hist_out # <<>>

\* C13: for every district the rejection rate of the history consolidator is
\* (sum of all inter-snapshot declines) / (peak count), lies in [0, 1] and is
\* 0.0 for fewer than 2 observations or a zero peak; the post-deadline rate
\* obeys the same over the snapshots dated after the submission deadline.
C13_RemovalRatesInUnitInterval ==
    RatesWritten =>
        \A k \in 1..Len(ReplayDistricts) :
            /\ IsRemovalRateOf(hist_out.rejectionRates[k], SeriesOf(k))
            /\ InUnitInterval(hist_out.rejectionRates[k])
            /\ IsRemovalRateOf(hist_out.postDeadlineRemovalRates[k], PostSeriesOf(k))
            /\ InUnitInterval(hist_out.postDeadlineRemovalRates[k])

\* what of C13 does hold: the rates are the rounded quotients and not negative
C13_RatesAreQuotients ==
    RatesWritten =>
        \A k \in 1..Len(ReplayDistricts) :
            /\ IsRemovalRateOf(hist_out.rejectionRates[k], SeriesOf(k))
            /\ RLe(RZero, hist_out.rejectionRates[k])
            /\ IsRemovalRateOf(hist_out.postDeadlineRemovalRates[k], PostSeriesOf(k))
            /\ RLe(RZero, hist_out.postDeadlineRemovalRates[k])

\* C12: compute_district_prob returns a value in [0, 1] for every input the
\* pipeline hands it (projections and rejection rates as replay.py writes
\* them), and a value in [0, 0.99] whenever verified < threshold. In a
\* growth-mode record the call's result is prob, in a survival-mode record it
\* is the growth value of the blend.
C12_GrowthProbInRange ==
    Recorded =>
        LET returned == IF d_rec.mode = "growth" THEN d_rec.all_prob
                        ELSE d_rec.growth_prob_for_blend
        IN  /\ InUnitInterval(returned)
            /\ InUnitInterval(d_rec.growthProb)
            /\ (d_rec.verified < d_rec.threshold) => RLe(returned, Dec(99, 2))

\* the snapshots whose deltas are written
DeltasWritten == 1..snap_i

\* C14: in the first snapshot all deltas, removals and net are 0 and
\* totalDelta = totalRemovals = 0; in every later snapshot, for every
\* district, deltas = max(0, cur - prev) and removals = max(0, prev - cur):
\* both are >= 0, at most one is non-zero, and
\* deltas - removals = net = cur - prev.
C14_DeltasAndRemovals ==
    \A i \in DeltasWritten :
        LET snap == snapshots[i]
        IN  IF i = 1
            THEN /\ \A k \in 1..Len(ReplayDistricts) :
                        snap.deltas[k] = 0 /\ snap.removals[k] = 0 /\ snap.net[k] = 0
                 /\ snap.totalDelta = 0
                 /\ snap.totalRemovals = 0
            ELSE \A k \in 1..Len(ReplayDistricts) :
                    LET cur == files[i].counts[k]
                        prev == files[i - 1].counts[k]
                    IN  /\ snap.deltas[k] = (IF cur > prev THEN cur - prev ELSE 0)
                        /\ snap.removals[k] = (IF prev > cur THEN prev - cur ELSE 0)
                        /\ snap.deltas[k] >= 0 /\ snap.removals[k] >= 0
                        /\ snap.deltas[k] = 0 \/ snap.removals[k] = 0
                        /\ snap.deltas[k] - snap.removals[k] = snap.net[k]
                        /\ snap.net[k] = cur - prev

\* a snapshot in which one district gained and another lost
C14_Witness ==
    /\ snap_i >= 2
    /\ snapshots[snap_i].deltas[1] > 0
    /\ snapshots[snap_i].removals[1] = 0
    /\ snapshots[snap_i].removals[2] > 0
    /\ snapshots[snap_i].deltas[2] = 0

AnomaliesReturned == pc \in {"replay_rates", "replay_projections", "replay_written"}

\* the (snapshot pair, district) combinations scanned
ScannedPairs == (2..Len(files)) \X (1..Len(ReplayDistricts))

\* the previous count is > 0 and the decline is at least 2% of it
DeclinedTwoPercent(i, k) ==
    LET prev == files[i - 1].counts[k]
        cur == files[i].counts[k]
    IN  prev > 0 /\ 100 * (prev - cur) >= 2 * prev

\* the records of the returned list for pair i and district k
RecordsOf(i, k) ==
    {j \in 1..Len(anomalies) :
        /\ anomalies[j].date = files[i].day
        /\ anomalies[j].district = ReplayDistricts[k]}

-----------------------------------------------------------------------------
(* linear_project called as a function *)

\* the longest series handed to linear_project
MaxSeries == 3

\* snapshot dates of a series, as days from the submission deadline
ProjectDays == {-3, -1, 0}

\* counts of a series
ProjectCounts == {0, 50, 98, 100}

\* the series handed over: lists of (date, count) pairs in date order, as
\* main builds them from the sorted file names, and the lists with repeated
\* dates, which the function's den == 0 test is there for
ProjectSeries ==
    UNION {{List([i \in 1..n |-> [day |-> days[i], count |-> counts[i]]], n) :
                days \in {s \in [1..n -> ProjectDays] :
                             \A i \in 1..(n - 1) : s[i] <= s[i + 1]},
                counts \in [1..n -> ProjectCounts]} :
           n \in 0..MaxSeries}

ProjectArgs ==
    {[history_vals |-> h, target_date |-> CLERK_DEADLINE] : h \in ProjectSeries}

CallProjectInit ==
    /\ pc = "project_call"
    /\ call_args \in ProjectArgs
    /\ call_ret = NoReturn

\* proj = linear_project(vals, CLERK_DEADLINE)
LinearProjectCall ==
    /\ pc = "project_call"
    /\ call_ret' = [projected |-> linear_project(call_args.history_vals,
                                                 call_args.target_date)]
    /\ pc' = "project_returned"
    /\ UNCHANGED call_args
    /\ UNCHANGED outsideCall

CallProjectNext == LinearProjectCall

InitProjectFn == CallProjectInit /\ DistIdle /\ BloomIdle /\ DistrictIdle /\ RunIdle /\ ReplayIdle /\ TailIdle

SpecProjectFn == InitProjectFn /\ [][CallProjectNext]_vars

ProjectReturned == pc = "project_returned"

\* every date of the series is the first one
DatesCoincide(h) == \A i \in 1..Len(h) : h[i].day = h[1].day

\* C16: for a non-empty series linear_project returns a value >= the last
\* observed count; with fewer than 2 snapshots, or when all snapshot dates
\* coincide, it returns exactly the last count; for an empty series, 0.0.
C16_NeverBelowLastCount ==
    ProjectReturned =>
        LET h == call_args.history_vals
            n == Len(h)
        IN  /\ n = 0 => call_ret.projected = RZero
            /\ n > 0 => RLe(R(h[n].count), call_ret.projected)
            /\ (n > 0 /\ (n < 2 \/ DatesCoincide(h)))
                   => call_ret.projected = R(h[n].count)

\* a falling series over distinct dates, whose fitted line lies below the
\* last count at the clerk deadline: the last count is returned
C16_Witness ==
    /\ ProjectReturned
    /\ Len(call_args.history_vals) = 3
    /\ ~DatesCoincide(call_args.history_vals)
    /\ call_args.history_vals[1].count = 100
    /\ call_args.history_vals[2].count = 98
    /\ call_args.history_vals[3].count = 50
    /\ call_ret.projected = R(50)

\* a rising series is projected above its last count
C16_RisingSeries ==
    /\ ProjectReturned
    /\ Len(call_args.history_vals) >= 2
    /\ RLt(R(call_args.history_vals[Len(call_args.history_vals)].count),
           call_ret.projected)

-----------------------------------------------------------------------------
(* bloom_hash_positions called as a function *)

\* the largest value of digest[0:8] and of digest[8:16] tried; the positions
\* depend on the two only through their residues modulo m
MaxDigest == 7

\* table sizes that are powers of two, m = 65536 being main's M
PowerOfTwoSizes == {1, 2, 4, 8, 16}

PositionsArgs ==
    {[key |-> <<h1, h2>>, m |-> mm, k |-> kk] :
        h1 \in 0..MaxDigest, h2 \in 0..MaxDigest,
        mm \in PowerOfTwoSizes, kk \in 1..16}

CallPositionsInit ==
    /\ pc = "positions_call"
    /\ call_args \in {a \in PositionsArgs : a.k <= a.m}
    /\ call_ret = NoReturn

\* bloom_hash_positions(key, m, k)
BloomHashPositionsCall ==
    /\ pc = "positions_call"
    /\ call_ret' = [positions |-> bloom_hash_positions(call_args.key, call_args.m,
                                                       call_args.k)]
    /\ pc' = "positions_returned"
    /\ UNCHANGED call_args
    /\ UNCHANGED outsideCall

CallPositionsNext == BloomHashPositionsCall

InitPositionsFn == CallPositionsInit /\ DistIdle /\ BloomIdle /\ DistrictIdle /\ RunIdle /\ ReplayIdle /\ TailIdle

SpecPositionsFn == InitPositionsFn /\ [][CallPositionsNext]_vars

PositionsReturned == pc = "positions_returned"

\* C22: h2 being forced odd, for every key and every power-of-two table size
\* m the positions (h1 + i*h2) mod m, i = 0..m-1, are every one of the m
\* positions exactly once; so for k <= m the k positions returned by
\* bloom_hash_positions are pairwise distinct and all lie in [0, m).
C22_PositionsDistinct ==
    PositionsReturned =>
        LET pos == call_ret.positions
        IN  /\ Len(pos) = call_args.k
            /\ \A i \in 1..Len(pos) : pos[i] >= 0 /\ pos[i] < call_args.m
            /\ \A i, j \in 1..Len(pos) : i # j => pos[i] # pos[j]
            /\ call_args.k = call_args.m
                  => {pos[i] : i \in 1..Len(pos)} = 0..(call_args.m - 1)

\* a key whose digest[8:16] is even, asked for as many positions as the
\* 16-bit table has
C22_Witness ==
    /\ PositionsReturned
    /\ call_args.key[2] % 2 = 0
    /\ call_args.key[2] > 0
    /\ call_args.m = 16
    /\ call_args.k = 16
    /\ {call_ret.positions[i] : i \in 1..16} = 0..15

-----------------------------------------------------------------------------
(* Properties of classify_tier's floors *)

TierReturned == pc = "tier_returned"

\* the share of the threshold that is verified, as classify_tier receives it
CallPctVerified == Rat(call_args.verified, call_args.threshold)

\* C26: for every prob, a district with pct_verified >= 0.80 is classified at
\* least LIKELY (never POSSIBLE, UNLIKELY or NO CHANCE), and a district with
\* pct_verified >= 0.60 at least POSSIBLE (never UNLIKELY or NO CHANCE).
C26_TierFloors ==
    TierReturned =>
        /\ RLe(Dec(80, 2), CallPctVerified)
              => call_ret.tier \notin {"POSSIBLE", "UNLIKELY", "NO CHANCE"}
        /\ RLe(Dec(60, 2), CallPctVerified)
              => call_ret.tier \notin {"UNLIKELY", "NO CHANCE"}

\* what of C26 does hold: at 60% verified and more the tier is at least
\* POSSIBLE, and at 80% and more it is at least LIKELY unless prob itself
\* lies in [0.25, 0.50)
C26_FloorsBelowPossible ==
    TierReturned =>
        /\ RLe(Dec(60, 2), CallPctVerified)
              => call_ret.tier \notin {"UNLIKELY", "NO CHANCE"}
        /\ (RLe(Dec(80, 2), CallPctVerified) /\ call_ret.tier = "POSSIBLE")
              => RLe(Dec(25, 2), call_ret.prob) /\ RLt(call_ret.prob, Dec(50, 2))
        /\ (RLe(Dec(80, 2), CallPctVerified) /\ RLt(call_ret.prob, Dec(25, 2)))
              => call_ret.tier = "LIKELY"

-----------------------------------------------------------------------------
(* Properties of compute_distribution's array bounds *)

InDistribution == pc \in {"dist_loop", "dist_index_error", "dist_returned"}

\* the indexes k of range(n + 1) at which d is not 0
NonZeroIndexes(d) == {k \in 0..(Len(d) - 1) : d[k + 1] # RZero}

\* C28: compute_distribution never writes outside its n+1-element array: for
\* every probability vector of length n with entries in [0,1], 0 and 1
\* included, whenever the inner loop reaches an index k with dp[k] != 0 while
\* processing the j-th district, k <= j-1 <= n-1, so new_dp[k+1] is in range
\* and the function ends without error. Here np districts are processed and
\* the next one is the (np+1)-th.
C28_WritesInRange ==
    InDistribution =>
        /\ pc # "dist_index_error"
        /\ Len(dp) = Len(probs) + 1
        /\ \A k \in NonZeroIndexes(dp) \cup NonZeroIndexes(dp_hi) : k <= np
        /\ np < Len(probs) =>
              \A k \in NonZeroIndexes(dp) \cup NonZeroIndexes(dp_hi) :
                  k + 1 <= Len(probs)

\* the last district of a vector with entries 0 and 1 is being processed and
\* the highest index the loop may find non-zero, n - 1, is non-zero
C28_Witness ==
    /\ pc = "dist_loop"
    /\ Len(probs) >= 2
    /\ np = Len(probs) - 1
    /\ np \in NonZeroIndexes(dp)
    /\ \E i \in 1..Len(probs) : probs[i] = ROne
    /\ \E i \in 1..Len(probs) : probs[i] = RZero

\* the function returned with every district certain: dp[n] = 1.0
C28_AllCertain ==
    /\ pc = "dist_returned"
    /\ Len(probs) = TOTAL_DISTRICTS
    /\ dp[Len(probs) + 1] = ROne

-----------------------------------------------------------------------------
(* Properties of the deltas over a sequence of runs *)

RunWritten == runs >= 1

\* the run took the carried-forward branch: the data.json it read holds the
\* statewide total of its own counts
CarriedForward ==
    /\ prev_out.present
    /\ prev_out.meta.totalVerified = IntSumRange(run_x.counts, 1, Len(run_x.counts))

\* each district's count is the verified count of the data.json read
CountsAsRecorded ==
    \A d \in Districts : run_x.counts[d] = prev_out.districts[d].verified

\* C27: over any sequence of runs, each reading the previous run's output,
\* with arbitrary per-district counts at each run (unchanged input and
\* unchanged statewide total included), every district record written has
\* delta = verified - prevVerified, and the carried-forward branch is taken
\* only when each district's verified count equals the one recorded for it
\* in the previous output.
C27_DeltaIsDifference ==
    RunWritten =>
        /\ \A d \in Districts :
              data.districts[d].delta
                  = data.districts[d].verified - data.districts[d].prevVerified
        /\ CarriedForward => CountsAsRecorded

\* every record of the document has delta = verified - prevVerified
DeltasConsistent(doc) ==
    \A d \in Districts :
        doc.districts[d].delta = doc.districts[d].verified - doc.districts[d].prevVerified

\* what of C27 does hold: a run whose statewide total differs from the
\* recorded one, or whose counts are all as recorded in a consistent
\* data.json, writes consistent records
C27_DeltaUnlessTotalsCollide ==
    (/\ RunWritten
     /\ CarriedForward => (CountsAsRecorded /\ DeltasConsistent(prev_out)))
        => DeltasConsistent(data)

\* a run with the statewide total of the run before it and two districts
\* changed
C27_TotalsCollide ==
    /\ RunWritten
    /\ CarriedForward
    /\ ~CountsAsRecorded

-----------------------------------------------------------------------------
(* Properties of the lag weight over the days after the submission deadline *)

DaysElapsed == Max(0, d_in.today - SUBMISSION_DEADLINE)

\* history.json gives no measure of post-deadline gains: there is none, or
\* it holds fewer than 2 post-deadline snapshots
NoLagEvidence == ~d_in.history \/ Len(InPostSnaps) < 2

\* C25: the lag weight decays from 1.0 on day 0 after the submission deadline
\* to 0.0 after LG_LAG_DAYS (14) days: it is non-increasing in the days
\* elapsed (a run on a later day with the same inputs has no larger weight),
\* and in every run more than 14 days past the deadline without empirical
\* evidence of ongoing lag (no history, or fewer than 2 post-deadline
\* snapshots) it is 0, so that prob is the survival probability alone.
C25_LagWeightDecaysToZero ==
    SurvivalRecorded =>
        /\ \A t \in Todays :
              t >= d_in.today
                  => RLe(LagWeight([d_in EXCEPT !.today = t]), d_rec.lag_weight)
        /\ (DaysElapsed > LG_LAG_DAYS /\ NoLagEvidence)
              => /\ d_rec.lag_weight = RZero
                 /\ d_rec.all_prob = d_rec.survival_prob

\* what of C25 does hold: without a measure of the gains the weight is
\* 1 - days/14 inside the window and 0.10 from day 14 on; with one it is 0
\* or the same
C25_WindowThenFloor ==
    SurvivalRecorded =>
        LET by_window == IF DaysElapsed < LG_LAG_DAYS
                         THEN RSub(ROne, Rat(DaysElapsed, LG_LAG_DAYS))
                         ELSE Dec(10, 2)
        IN  /\ NoLagEvidence => d_rec.lag_weight = by_window
            /\ d_rec.lag_weight \in {RZero, by_window}

\* a run 22 days after the deadline without history.json whose prob is not
\* the survival probability
C25_FloorWithoutHistory ==
    /\ SurvivalRecorded
    /\ ~d_in.history
    /\ DaysElapsed > LG_LAG_DAYS
    /\ d_rec.lag_weight = Dec(10, 2)
    /\ d_rec.all_prob # d_rec.survival_prob

-----------------------------------------------------------------------------
(* compute_trend_from_history called as a function *)

\* the longest list of snapshots handed to compute_trend_from_history
MaxTrendSnaps == 4

\* the dates of the snapshots: a day apart, two days apart, and with a
\* repeated date, whose interval counts as one day
TrendDayLists == {<<0, 1, 2, 3>>, <<0, 2, 4, 6>>, <<0, 0, 1, 3>>}

\* a district's count in a snapshot
TrendCounts == {0, 10, 19, 20, 21, 30, 40}

TrendArgs ==
    UNION {{[district_snapshots |->
                List([i \in 1..n |-> [day |-> days[i], count |-> counts[i]]], n)] :
              days \in {d \in TrendDayLists : n <= Len(d)},
              counts \in [1..n -> TrendCounts]} :
           n \in 0..MaxTrendSnaps}

CallTrendInit ==
    /\ pc = "trend_call"
    /\ call_args \in TrendArgs
    /\ call_ret = NoReturn

\* trend = compute_trend_from_history(district_snapshots)
ComputeTrendFromHistoryCall ==
    /\ pc = "trend_call"
    /\ call_ret' = [trend |-> compute_trend_from_history(call_args.district_snapshots)]
    /\ pc' = "trend_returned"
    /\ UNCHANGED call_args
    /\ UNCHANGED outsideCall

CallTrendNext == ComputeTrendFromHistoryCall

InitTrendFn == CallTrendInit /\ DistIdle /\ BloomIdle /\ DistrictIdle /\ RunIdle /\ ReplayIdle /\ TailIdle

SpecTrendFn == InitTrendFn /\ [][CallTrendNext]_vars

TrendReturned == pc = "trend_returned"

\* the number of intervals between the snapshots handed over
Intervals == Len(call_args.district_snapshots) - 1

\* the signed velocity of interval i: net change / days elapsed, the days
\* floored at 1
Velocity(i) ==
    LET s == call_args.district_snapshots
    IN  Rat(s[i + 1].count - s[i].count,
            IF s[i + 1].day - s[i].day < 1 THEN 1 ELSE s[i + 1].day - s[i].day)

\* the least-squares slope of the velocities against the interval index
\* 1..n, in closed form: 6 * sum((2i - n - 1) * v_i) / (n * (n^2 - 1))
VelocitySlope ==
    LET n == Intervals
    IN  RDiv(RMul(R(6), RSum(List([i \in 1..n |-> RMul(R(2 * i - n - 1), Velocity(i))], n))),
             R(n * (n * n - 1)))

\* the mean of the absolute velocities
MeanAbsoluteVelocity ==
    RDiv(RSum(List([i \in 1..Intervals |-> RAbs(Velocity(i))], Intervals)), R(Intervals))

\* the absolute value of the mean velocity, floored at 1 signature a day
AbsMeanVelocityFloored ==
    RMax(RAbs(RDiv(RSum(List([i \in 1..Intervals |-> Velocity(i)], Intervals)),
                   R(Intervals))),
         ROne)

C24_AtTheLimit ==
    /\ TrendReturned
    /\ Intervals = 2
    /\ VelocitySlope = RMul(Dec(10, 2), AbsMeanVelocityFloored)
    /\ call_ret.trend = "ACCEL"


-----------------------------------------------------------------------------
(* Properties of the anomaly step of process.py main *)

AnomaliesApplied == pc = "anomalies_applied"

\* the district of a record is one that history.json lists an anomaly for
HasAnomaly(rec) == \E i \in 1..Len(anomalies) : anomalies[i].district = rec.d

SameRate(x, y) == RLe(x, y) /\ RLe(y, x)

\* two records agree in every field but rejectionRate
SameButRate(before, after) ==
    [after EXCEPT !.rejectionRate = RZero] = [before EXCEPT !.rejectionRate = RZero]

\* C23: the anomaly step sets the rejectionRate of each district that
\* history.json lists an anomaly for to its previous rate plus 0.01, capped at
\* 0.05, and changes nothing else: verified, delta, prob, tier, the
\* projections and every other field of those records stay as they were, and
\* the records of the districts without an anomaly stay as they were entirely
C23_AnomalyStepFrame ==
    AnomaliesApplied =>
        /\ Len(districts_out) = Len(after_loop)
        /\ \A k \in 1..Len(after_loop) :
              LET before == after_loop[k]
                  after == districts_out[k]
              IN  IF HasAnomaly(before)
                  THEN /\ SameButRate(before, after)
                       /\ SameRate(after.rejectionRate,
                                   RMin(Dec(5, 2), RAdd(before.rejectionRate, Dec(1, 2))))
                  ELSE after = before

\* the step has run on three districts: one whose rate it raised, one with an
\* anomaly as well, one without
C23_Witness ==
    /\ AnomaliesApplied
    /\ Len(districts_out) = 3
    /\ HasAnomaly(after_loop[1])
    /\ RLt(after_loop[1].rejectionRate, districts_out[1].rejectionRate)
    /\ HasAnomaly(after_loop[2])
    /\ ~HasAnomaly(after_loop[3])
    /\ after_loop[1].verified > 0

\* C29: for a district with an anomaly whose rejectionRate before the step is
\* within [0, 1], the rejectionRate after the step is not below it
C29_BumpNeverLowers ==
    AnomaliesApplied =>
        \A k \in 1..Len(after_loop) :
            (HasAnomaly(after_loop[k]) /\ InUnitInterval(after_loop[k].rejectionRate))
                => RLe(after_loop[k].rejectionRate, districts_out[k].rejectionRate)

\* what does hold: the rate after the step is 0.05 or the rate before plus
\* 0.01, whichever is smaller, so it is not lowered when it was at most 0.05
C29_NotLoweredUpToCap ==
    AnomaliesApplied =>
        \A k \in 1..Len(after_loop) :
            (HasAnomaly(after_loop[k]) /\ RLe(after_loop[k].rejectionRate, Dec(5, 2)))
                => RLe(after_loop[k].rejectionRate, districts_out[k].rejectionRate)

\* a district with an anomaly and a rate of at most 0.05 before the step
C29_UpToCap ==
    /\ AnomaliesApplied
    /\ \E k \in 1..Len(after_loop) :
          /\ HasAnomaly(after_loop[k])
          /\ RLe(after_loop[k].rejectionRate, Dec(5, 2))


-----------------------------------------------------------------------------
(* process.py main: the statewide trajectory, lines 989-1087 *)

\* line 45
QUALIFICATION_THRESHOLD_STATEWIDE == 140748

\* math.ceil of a float
RCeil(x) == -((-x[1]) \div x[2])

\* the largest r in lo..hi with r * r <= n
RECURSIVE SqrtBetween(_, _, _)
SqrtBetween(n, lo, hi) ==
    IF lo = hi THEN lo
    ELSE LET mid == (lo + hi + 1) \div 2
         IN  IF mid * mid <= n THEN SqrtBetween(n, mid, hi)
             ELSE SqrtBetween(n, lo, mid - 1)

ISqrt(n) == SqrtBetween(n, 0, 46340)

IsSquare(n) == ISqrt(n) * ISqrt(n) = n

\* x is the square of a float that has an exact value here
HasExactRoot(x) == x[1] >= 0 /\ IsSquare(x[1]) /\ IsSquare(x[2])

\* x ** 0.5 where HasExactRoot(x)
RSqrt(x) == <<ISqrt(x[1]), ISqrt(x[2])>>

\* lines 1004-1010 and 1062-1067: net / days of the intervals
\* range(max(1, len(snaps) - 5), len(snaps)), oldest first
RecentRates(snaps) ==
    LET n == Len(snaps)
        lo == Max(1, n - 5)
    IN  List([k \in 1..(n - lo) |->
                Rat(snaps[lo + k].total - snaps[lo + k - 1].total,
                    Max(snaps[lo + k].day - snaps[lo + k - 1].day, 1))], n - lo)

\* lines 1014-1016: weights 2 ** i, the most recent interval weighing most
WeightedMean(rates) ==
    LET n == Len(rates)
        weighted == List([k \in 1..n |-> RMul(rates[k], R(Pow2(k - 1)))], n)
    IN  RDiv(RSum(weighted), R(Pow2(n) - 1))

\* lines 1000-1016: net_daily_velocity
NetDailyVelocity(in) ==
    IF in.history /\ Len(in.snaps) >= 2 THEN WeightedMean(RecentRates(in.snaps))
    ELSE RZero

\* an absent value (None), or the value x
None == <<>>
Some(x) == <<x>>

\* lines 1019-1030: days_to_crossing and projected_crossing_date
Crossing(today, remaining, velocity) ==
    IF remaining > 0 /\ RLt(RZero, velocity)
    THEN LET days == RCeil(RDiv(R(remaining), velocity))
         IN  [days_to_crossing |-> Some(days),
              projected_crossing_date |-> IF today + days <= CLERK_DEADLINE
                                          THEN Some(today + days) ELSE None]
    ELSE IF remaining <= 0
    THEN [days_to_crossing |-> Some(0), projected_crossing_date |-> Some(today)]
    ELSE [days_to_crossing |-> None, projected_crossing_date |-> None]

\* lines 1037-1055: the piecewise mapping from the projected final count
ReachTargetMapping(total_verified, projected_final, target) ==
    LET t == R(target)
        margin == RDiv(RSub(projected_final, t), t)
        shortfall == RDiv(RSub(t, projected_final), t)
    IN  IF total_verified >= target THEN ROne
        ELSE IF RLe(RMul(t, Dec(105, 2)), projected_final)
        THEN RMin(Dec(95, 2), RAdd(Dec(90, 2), RMul(margin, Dec(5, 1))))
        ELSE IF RLe(t, projected_final)
        THEN RAdd(Dec(50, 2), RMul(RDiv(margin, Dec(5, 2)), Dec(40, 2)))
        ELSE IF RLe(shortfall, Dec(5, 2))
        THEN RAdd(Dec(30, 2),
                  RMul(RSub(ROne, RDiv(shortfall, Dec(5, 2))), Dec(20, 2)))
        ELSE IF RLe(shortfall, Dec(15, 2))
        THEN RAdd(Dec(10, 2),
                  RMul(RSub(ROne, RDiv(RSub(shortfall, Dec(5, 2)), Dec(10, 2))),
                       Dec(20, 2)))
        ELSE RMax(Dec(1, 2), RMul(Dec(10, 2), RSub(ROne, shortfall)))

\* lines 1069-1070: (rate_std / net_daily_velocity) squared, for velocity > 0
SquaredVariation(rates, velocity) ==
    LET n == Len(rates)
        squares == List([k \in 1..n |->
                           RMul(RSub(rates[k], velocity), RSub(rates[k], velocity))], n)
    IN  RDiv(RDiv(RSum(squares), R(n)), RMul(velocity, velocity))

\* line 1072: min(cv * 0.15, 0.10); cv * 0.15 reaches 0.10 when cv is at
\* least 2/3, and below that cv is sqrt(cv2), taken where it has an exact value
VariancePenaltyOf(cv2) ==
    IF RLe(Rat(4, 9), cv2) THEN Dec(10, 2)
    ELSE RMul(RSqrt(cv2), Dec(15, 2))

\* lines 1058-1073: whether the penalty is computed
PenaltyApplies(in, velocity) ==
    /\ in.history
    /\ Len(in.snaps) >= 4
    /\ Len(RecentRates(in.snaps)) >= 2
    /\ RLt(RZero, velocity)

\* (mutant) lines 1058-1073 skipped when the total has reached the target
PenalizedBelowTarget(p, in, velocity) ==
    IF PenaltyApplies(in, velocity) /\ in.total_verified < QUALIFICATION_THRESHOLD_STATEWIDE
    THEN RMax(Dec(1, 2),
              RSub(p, VariancePenaltyOf(SquaredVariation(RecentRates(in.snaps), velocity))))
    ELSE p

\* lines 1058-1073: p_reach_target after the variance penalty
Penalized(p, in, velocity) ==
    IF PenaltyApplies(in, velocity)
    THEN RMax(Dec(1, 2),
              RSub(p, VariancePenaltyOf(SquaredVariation(RecentRates(in.snaps), velocity))))
    ELSE p

\* lines 989-1087: statewide_projection; proj_adj and proj_raw are the sums of
\* the districts' projectedTotal and projectedRaw
StatewideProjection(in) ==
    LET target == QUALIFICATION_THRESHOLD_STATEWIDE
        remaining == Max(0, target - in.total_verified)
        velocity == NetDailyVelocity(in)
        crossing == Crossing(in.today, remaining, velocity)
        projected_final == RAdd(RMul(Dec(6, 1), in.proj_adj), RMul(Dec(4, 1), in.proj_raw))
        mapped == ReachTargetMapping(in.total_verified, projected_final, target)
        p_reach_target == Penalized(mapped, in, velocity)
    IN  [target |-> target,
         current |-> in.total_verified,
         remaining |-> remaining,
         netDailyVelocity |-> RoundDigits(velocity, 0),
         projectedCrossingDate |-> crossing.projected_crossing_date,
         daysToProjectedCrossing |-> crossing.days_to_crossing,
         pReachTarget |-> Round4(RMin(ROne, RMax(RZero, p_reach_target))),
         onTrack |-> (crossing.projected_crossing_date # None
                         \/ in.total_verified >= target),
         net_daily_velocity |-> velocity,
         mapped |-> mapped]


-----------------------------------------------------------------------------
(* The inputs of the statewide trajectory, and its one step *)

\* the most snapshots history.json holds; with 7 the window of 5 intervals
\* leaves the oldest one out
MaxHistory == 7

\* the day main runs: before the submission deadline, around the clerk
\* deadline, and the day after it
StatewideTodays == {-5, 19, 21, 22, 23}

\* total_verified: far below the target, 120 and 60 below it, at it, above it
StatewideTotals ==
    {QUALIFICATION_THRESHOLD_STATEWIDE - 30000, QUALIFICATION_THRESHOLD_STATEWIDE - 120,
     QUALIFICATION_THRESHOLD_STATEWIDE - 60, QUALIFICATION_THRESHOLD_STATEWIDE,
     QUALIFICATION_THRESHOLD_STATEWIDE + 600}

\* net signatures per day from one snapshot to the next, repeated as often as
\* the history is long: steady, idle, shrinking, and uneven in several ways
RatePatterns ==
    {<<60>>, <<0>>, <<-60>>, <<-60, 120>>, <<0, 120, 60, 120>>,
     <<60, 0, 90, 60, 60>>, <<60, 120, 100, 100, 100>>}

\* days from one snapshot to the next
GapPatterns == {<<1>>, <<2, 1>>}

Cyclic(s, i) == s[((i - 1) % Len(s)) + 1]

\* history["snapshots"] with n snapshots, the last one of day `today` with
\* total `base`
SnapshotsEndingAt(today, base, n, rates, gaps) ==
    LET net == List([i \in 1..(n - 1) |-> Cyclic(rates, i) * Cyclic(gaps, i)], n - 1)
        gap == List([i \in 1..(n - 1) |-> Cyclic(gaps, i)], n - 1)
    IN  List([i \in 1..n |->
                [day |-> today - IntSumRange(gap, i, n - 1),
                 total |-> base - IntSumRange(net, i, n - 1)]], n)

\* the sums of projectedTotal and projectedRaw, in percent of the target
ProjectionLevels ==
    {<<80, 80>>, <<90, 90>>, <<90, 110>>, <<100, 105>>, <<110, 110>>, <<120, 120>>}

PercentOfTarget(k) == Rat(QUALIFICATION_THRESHOLD_STATEWIDE * k, 100)

\* the penalty of lines 1069-1072 has an exact value: rate_std is rational, or
\* cv * 0.15 is at least the cap
PenaltyIsExact(in) ==
    LET velocity == NetDailyVelocity(in)
    IN  PenaltyApplies(in, velocity) =>
            LET cv2 == SquaredVariation(RecentRates(in.snaps), velocity)
            IN  RLe(Rat(4, 9), cv2) \/ HasExactRoot(cv2)

\* what the trajectory reads when history.json was loaded: the last snapshot
\* is today's spreadsheet
StatewideInput(td, tv, n, rates, gaps, lv) ==
    [today |-> td, total_verified |-> tv, history |-> TRUE,
     snaps |-> SnapshotsEndingAt(td, tv, n, rates, gaps),
     proj_adj |-> PercentOfTarget(lv[1]),
     proj_raw |-> PercentOfTarget(lv[2])]

\* what it reads when there is no history.json: no district is projected
\* above or below its count (ESTIMATED_VALID_UNVERIFIED is 0, no rates)
StatewideInputNoHistory(td, tv) ==
    [today |-> td, total_verified |-> tv, history |-> FALSE, snaps |-> <<>>,
     proj_adj |-> R(tv), proj_raw |-> R(tv)]

\* after the submission deadline no district's projectedTotal is below its
\* count (line 834), so the sum is not below total_verified
StatewideInit ==
    /\ pc = "statewide_body"
    /\ \E td \in StatewideTodays, tv \in StatewideTotals :
          \/ \E n \in 1..MaxHistory, rates \in RatePatterns, gaps \in GapPatterns,
                lv \in ProjectionLevels :
                \E in \in {StatewideInput(td, tv, n, rates, gaps, lv)} :
                    /\ td > SUBMISSION_DEADLINE => RLe(R(tv), in.proj_adj)
                    /\ PenaltyIsExact(in)
                    /\ tail_in = in
          \/ tail_in = StatewideInputNoHistory(td, tv)
    /\ statewide = <<>>
    /\ districts_out = <<>>
    /\ after_loop = <<>>

\* lines 989-1087: statewide_projection is computed
StatewideTrajectory ==
    /\ pc = "statewide_body"
    /\ statewide' = StatewideProjection(tail_in)
    /\ pc' = "statewide_written"
    /\ UNCHANGED <<districts_out, after_loop, tail_in>>
    /\ UNCHANGED outsideTail

StatewideNext == StatewideTrajectory

InitStatewide ==
    StatewideInit /\ DistIdle /\ BloomIdle /\ CallIdle /\ DistrictIdle /\ RunIdle /\ ReplayIdle

SpecStatewide == InitStatewide /\ [][StatewideNext]_vars

StatewideWritten == pc = "statewide_written"


-----------------------------------------------------------------------------
(* Properties of the statewide trajectory *)

StatewideRemaining == Max(0, QUALIFICATION_THRESHOLD_STATEWIDE - tail_in.total_verified)

\* k is ceil(remaining / velocity) for velocity > 0: the least number of days
\* in which the velocity covers what remains
IsDaysToCross(k, remaining, velocity) ==
    /\ RLe(R(remaining), RMul(R(k), velocity))
    /\ ~RLe(R(remaining), RMul(R(k - 1), velocity))

DateReported == statewide.projectedCrossingDate # None

\* the crossing date while signatures remain to be gathered: with a velocity
\* above 0 the candidate is today + ceil(remaining / velocity), reported when
\* it is on or before the clerk deadline and only then; with a velocity of 0
\* or less no date is reported
CrossingWhileRemaining ==
    LET velocity == statewide.net_daily_velocity
    IN  StatewideRemaining > 0 =>
            IF RLt(RZero, velocity)
            THEN \E k \in 1..StatewideRemaining :
                    /\ IsDaysToCross(k, StatewideRemaining, velocity)
                    /\ statewide.daysToProjectedCrossing = Some(k)
                    /\ IF tail_in.today + k <= CLERK_DEADLINE
                       THEN statewide.projectedCrossingDate = Some(tail_in.today + k)
                       ELSE ~DateReported
            ELSE ~DateReported

\* C21: a projected crossing date is reported only if it is on or before the
\* clerk deadline; with remaining > 0 and velocity > 0 the candidate is
\* today + ceil(remaining / velocity), and with remaining > 0 and
\* velocity <= 0 no date is reported
C21_CrossingDateUpToDeadline ==
    StatewideWritten =>
        /\ DateReported => statewide.projectedCrossingDate[1] <= CLERK_DEADLINE
        /\ CrossingWhileRemaining

\* what does hold: the claim's two cases with remaining > 0, and a reported
\* date that is either on or before the clerk deadline or the day of a run
\* that found the target reached
C21_CrossingDateUnlessReached ==
    StatewideWritten =>
        /\ CrossingWhileRemaining
        /\ DateReported =>
              \/ statewide.projectedCrossingDate[1] <= CLERK_DEADLINE
              \/ /\ StatewideRemaining = 0
                 /\ statewide.projectedCrossingDate = Some(tail_in.today)

\* a date on the clerk deadline itself is reported, from a velocity above 0
C21_OnTheDeadline ==
    /\ StatewideWritten
    /\ StatewideRemaining > 0
    /\ tail_in.today < CLERK_DEADLINE
    /\ statewide.projectedCrossingDate = Some(CLERK_DEADLINE)

\* a candidate date after the clerk deadline is not reported
C21_PastTheDeadline ==
    /\ StatewideWritten
    /\ StatewideRemaining > 0
    /\ RLt(RZero, statewide.net_daily_velocity)
    /\ statewide.daysToProjectedCrossing # None
    /\ ~DateReported

\* the day after the clerk deadline is reported as the crossing date
C21_ReportedAfterDeadline ==
    /\ StatewideWritten
    /\ DateReported
    /\ statewide.projectedCrossingDate[1] > CLERK_DEADLINE

AtTarget == tail_in.total_verified >= QUALIFICATION_THRESHOLD_STATEWIDE

\* the recent rates are not all the same while the velocity is above 0 and
\* history.json holds at least 4 snapshots
RatesVary ==
    /\ tail_in.history
    /\ Len(tail_in.snaps) >= 4
    /\ RLt(RZero, statewide.net_daily_velocity)
    /\ \E k \in 1..Len(RecentRates(tail_in.snaps)) :
          RecentRates(tail_in.snaps)[k] # statewide.net_daily_velocity

C30_WholePenalty ==
    /\ StatewideWritten
    /\ AtTarget
    /\ statewide.pReachTarget = Dec(90, 2)

=============================================================================
